---- MODULE Spec2Model ----
(***************************************************************************)
(* Model of the broadcast bot's post-delivery scheduler                    *)
(* (bot/scheduler.py, bot/db.py, bot/admin_handlers.py, bot/main.py).      *)
(*                                                                         *)
(* Time is an integer clock; one unit is one hour, so that the scheduler's *)
(* misfire_grace_time of 60*60 seconds is Grace == 1.                      *)
(*                                                                         *)
(* A delivery run (_send_post) is a cooperative task.  Its suspension      *)
(* points are the awaits of the source; the model's task steps are the     *)
(* code between two suspensions.  The sleep after a send and the next     *)
(* send's await are one suspended state: the resumption between them reads *)
(* and writes nothing shared.                                              *)
(*                                                                         *)
(* The field armed of a job or a task is a history field: the post's level *)
(* and text when the run was requested.  A handler step takes no time: the *)
(* clock advances between steps only.                                      *)
(***************************************************************************)
EXTENDS Integers, Sequences, FiniteSets, Bags, TLC

(* ---------------------------- bounds ---------------------------------- *)
MaxTime == 3
MaxPosts == 2
MaxOps == 2
MaxCrashes == 1
MaxUsers == 3
MaxAlbumItems == 3
MaxWizardPosts == 1
MaxWizardAlbum == 2

(* ------------------------ program constants --------------------------- *)
Grace == 1
NULL == -1
NoLevel == "<null>"

VARIABLES now, up, posts, users, admin_ids, teaser, jobs, tasks, pending, ops,
          crashes, lastOp, trace, content, calls, seed, fsm, album_tasks,
          updates

vars == <<now, up, posts, users, admin_ids, teaser, jobs, tasks, pending, ops,
          crashes, lastOp, trace, content, calls, seed, fsm, album_tasks,
          updates>>

(* the registered users and the configuration, and the content of a post
   with the transport calls of its rendering: no step of the scheduler
   changes them *)
conf == <<users, admin_ids, teaser, content, calls, seed, fsm, album_tasks,
          updates>>

Time == 0..MaxTime
PostIds == 1..MaxPosts
Texts == {<<"a">>, <<"b">>}
EditLevels == {"all", "admins"}
Outcomes == {"ok", "retry_after", "forbidden", "bad_request", "error"}

(* configured administrators (bot._admin_ids) and the registered users *)
AdminIds == <<3>>
InitUsers == (1 :> "starters") @@ (3 :> NoLevel)

(* inputs of the recipient resolver: the registered users with their
   levels, the administrator ids (5 is never registered), the post's level *)
UserIds == 1..MaxUsers
UserLevels == {"starters", "explorers", NoLevel}
UserMaps == UNION {[S -> UserLevels] : S \in SUBSET UserIds}
AdminPool == {1, 3, 5}
AdminChoices ==
  {a \in UNION {[1..n -> AdminPool] : n \in 0..2} :
     \A i, j \in DOMAIN a : i # j => a[i] # a[j]}
PostLevelChoices == {"all", "admins", "starters", "explorers", "legacy_tier"}

(* the stored teaser (BroadcastSettings): its text, a sequence of
   characters, and its media file id, "" when there is none *)
NoTeaser == [text |-> <<>>, file_id |-> ""]

(* history of a run's sends: off in the specifications of the whole program *)
NoTrace == <<[ev |-> "off"]>>

(* the seed file of the process: settings.seed_on_start is off *)
NoSeed == [file |-> "off", posts |-> <<>>]

(* the wizard context of a sender's chat (FSMContext): its state
   and its data, "" , <<>> and 0 standing for an absent key or None *)
NoData == [title |-> <<>>, level |-> "", draft_text |-> <<>>,
           draft_media_type |-> "", draft_file_id |-> "",
           draft_media_group |-> <<>>, post_id |-> 0, text |-> <<>>,
           album_id |-> "", album_items |-> <<>>]

NoContext == [state |-> "", data |-> NoData]

(* the senders of updates: 0 is an update without from_user, 1 a
   registered user who is no administrator, 3 the administrator *)
Senders == {0, 1, 3}

(* the wizard contexts of the storage the dispatcher keeps in memory *)
NoState == [u \in Senders |-> NoContext]

(* the content columns of a post (text, media_type, file_id; "" is None)
   and its album rows; a text is a sequence of characters *)
NoContent == [text |-> <<>>, media_type |-> "", file_id |-> "", media_items |-> <<>>]

(* ------------------------------ store --------------------------------- *)
SortedSeq(S) ==
  [k \in 1..Cardinality(S) |->
     CHOOSE x \in S : Cardinality({y \in S : y < x}) = k - 1]

(* mutant: users without a level are left out *)
UsersWithLevel(us) == SortedSeq({u \in DOMAIN us : us[u] # NoLevel})

get_all_users(us) == SortedSeq(DOMAIN us)

(* mutant: users without a level match every level *)
UsersOfLevelOrNone(us, level) ==
  SortedSeq({u \in DOMAIN us : us[u] = NoLevel \/ us[u] = level})


get_users_by_level(us, level) ==
  SortedSeq({u \in DOMAIN us : us[u] # NoLevel /\ us[u] = level})

Stored(p) == p \in DOMAIN posts

NextPostId == IF DOMAIN posts = {} THEN 1
              ELSE (CHOOSE m \in DOMAIN posts : \A q \in DOMAIN posts : q <= m) + 1

(* str.strip() of a text: what lies between its first and its last
   character that is not white space *)
strip(text) ==
  LET solid == {i \in 1..Len(text) : text[i] # " "}
  IN IF solid = {} THEN <<>>
     ELSE SubSeq(text, CHOOSE i \in solid : \A j \in solid : i <= j,
                       CHOOSE i \in solid : \A j \in solid : j <= i)

(* a post row: title and text are sequences of characters, media_type and
   file_id are "" for None, media_items are the album rows of the post *)
create_post(ps, id, title, text, send_at, level) ==
  ps @@ (id :> [id |-> id, title |-> strip(title), level |-> level, text |-> text,
                media_type |-> "", file_id |-> "", media_items |-> <<>>,
                send_at |-> send_at, sent |-> FALSE, sent_at |-> NULL])

(* the album rows of a post are replaced by media_group (<<>> for None) *)
set_post_media(ps, id, media_group) ==
  [ps EXCEPT ![id].media_items = media_group]

(* update_post_content: text, media_type and file_id are overwritten, and
   the album rows when the caller passes media_group *)
update_post_content(ps, id, text, media_type, file_id, media_group) ==
  IF id \in DOMAIN ps
  THEN set_post_media([ps EXCEPT ![id].text = text, ![id].media_type = media_type,
                                 ![id].file_id = file_id], id, media_group)
  ELSE ps

(* title=None and text=None of update_post_text_title: the column is left
   as it is *)
NoTitle == <<"<none>">>

NoText == <<"<none>">>

update_post_text_title(ps, id, title, text) ==
  IF id \in DOMAIN ps
  THEN [ps EXCEPT ![id].title = IF title # NoTitle THEN strip(title) ELSE @,
                  ![id].text = IF text # NoText THEN text ELSE @]
  ELSE ps

(* mutant: the time of the last send is kept *)
UpdateSendTimeKeepsSentAt(ps, id, send_at) ==
  IF id \in DOMAIN ps
  THEN [ps EXCEPT ![id].send_at = send_at, ![id].sent = FALSE]
  ELSE ps

update_post_send_time(ps, id, send_at) ==
  IF id \in DOMAIN ps
  THEN [ps EXCEPT ![id].send_at = send_at, ![id].sent = FALSE, ![id].sent_at = NULL]
  ELSE ps

update_post_level(ps, id, level) ==
  IF id \in DOMAIN ps THEN [ps EXCEPT ![id].level = level] ELSE ps

delete_post(ps, id) == [q \in DOMAIN ps \ {id} |-> ps[q]]

mark_post_sent(ps, id, at) ==
  IF id \in DOMAIN ps
  THEN [ps EXCEPT ![id].sent = TRUE, ![id].sent_at = at]
  ELSE ps

get_unsent_future_posts(ps, t) ==
  {q \in DOMAIN ps : ~ps[q].sent /\ ps[q].send_at > t}

(* mutant: the due query with a strict comparison *)
DueStrictlyBefore(ps, t) ==
  {q \in DOMAIN ps : ~ps[q].sent /\ ps[q].send_at < t}

get_unsent_due_posts(ps, t) ==
  {q \in DOMAIN ps : ~ps[q].sent /\ ps[q].send_at <= t}

(* ---------------------------- scheduler ------------------------------- *)
_job_id(post_id) == <<"post", post_id>>

PostOf(jobid) == jobid[2]

Armed(obj) == [level |-> obj.level, text |-> obj.text]

NewTask(id, via, armed) ==
  [id |-> id, via |-> via, pc |-> "start", level |-> "", text |-> <<>>,
   chat_ids |-> <<>>, total_count |-> 0, teaser |-> NoTeaser,
   idx |-> 0, sent_count |-> 0, armed |-> armed, db |-> "none"]

(* scheduler.remove_job: removes the job of that id; raises when there is
   none, which both callers catch and ignore *)
remove_job(js, jobid) == {j \in js : j.id # jobid}

(* scheduler.add_job(..., id=jobid, replace_existing=True) *)
add_job(js, j) == {k \in js : k.id # j.id} \cup {j}

(* mutant: arms without the cleanup and without replace_existing *)
ScheduleKeepsOldTimer(obj, t, js, ts) ==
  IF obj.sent THEN [jobs |-> js, tasks |-> ts]
  ELSE IF obj.send_at <= t
       THEN [jobs |-> remove_job(js, _job_id(obj.id)),
             tasks |-> ts (+) SetToBag({NewTask(obj.id, "now", Armed(obj))})]
       ELSE [jobs |-> js \cup {[id |-> _job_id(obj.id), run_date |-> obj.send_at,
                                armed |-> Armed(obj)]},
             tasks |-> ts]

(* mutant: no check of the sent flag *)
ScheduleIgnoresSent(obj, t, js, ts) ==
  LET cleaned == remove_job(js, _job_id(obj.id))
  IN IF obj.send_at <= t
     THEN [jobs |-> cleaned,
           tasks |-> ts (+) SetToBag({NewTask(obj.id, "now", Armed(obj))})]
     ELSE [jobs |-> add_job(cleaned, [id |-> _job_id(obj.id), run_date |-> obj.send_at,
                                      armed |-> Armed(obj)]),
           tasks |-> ts]

(* mutant: the send-now path returns before the cleanup *)
ScheduleDueKeepsTimer(obj, t, js, ts) ==
  IF obj.sent THEN [jobs |-> js, tasks |-> ts]
  ELSE IF obj.send_at <= t
       THEN [jobs |-> js,
             tasks |-> ts (+) SetToBag({NewTask(obj.id, "now", Armed(obj))})]
       ELSE [jobs |-> add_job(js, [id |-> _job_id(obj.id), run_date |-> obj.send_at,
                                   armed |-> Armed(obj)]),
             tasks |-> ts]

schedule_or_send_now(obj, t, js, ts) ==
  IF obj.sent THEN [jobs |-> js, tasks |-> ts]
  ELSE LET cleaned == remove_job(js, _job_id(obj.id))
       IN IF obj.send_at <= t
          THEN [jobs |-> cleaned,
                tasks |-> ts (+) SetToBag({NewTask(obj.id, "now", Armed(obj))})]
          ELSE [jobs |-> add_job(cleaned, [id |-> _job_id(obj.id),
                                           run_date |-> obj.send_at,
                                           armed |-> Armed(obj)]),
                tasks |-> ts]

(* mutant: the removal is skipped *)
UnscheduleNothing(js, post_id) == js

unschedule_post(js, post_id) == remove_job(js, _job_id(post_id))

ScheduleAll(S, t, js, ts) ==
  LET order == SortedSeq(S)
      step[i \in 0..Len(order)] ==
        IF i = 0 THEN [jobs |-> js, tasks |-> ts]
        ELSE schedule_or_send_now(posts[order[i]], t, step[i - 1].jobs, step[i - 1].tasks)
  IN step[Len(order)]

(* mutant: the due posts are not dispatched at startup *)
SetupArmsOnly(t) ==
  ScheduleAll(get_unsent_future_posts(posts, t), t, {}, EmptyBag)

(* setup_scheduler: a fresh scheduler; the due posts are dispatched, the
   future ones go through schedule_or_send_now *)
setup_scheduler(t) ==
  LET due == get_unsent_due_posts(posts, t)
      future == get_unsent_future_posts(posts, t)
      dispatched == SetToBag({NewTask(q, "startup", Armed(posts[q])) : q \in due})
  IN ScheduleAll(future, t, {}, dispatched)

(* mutant: duplicates are kept *)
KeepAll(s) == s

(* recipients of a run, scheduler.py 45-56 *)
Uniq(s) ==
  LET firsts == {i \in 1..Len(s) : \A j \in 1..(i - 1) : s[j] # s[i]}
      ord == SortedSeq(firsts)
  IN [k \in 1..Cardinality(firsts) |-> s[ord[k]]]

(* mutant: a post for the administrators also goes to the users *)
ChatIdsAdminsAndUsers(us, level) ==
  Uniq(IF level = "admins" \/ level = "all" THEN get_all_users(us) \o admin_ids
       ELSE get_users_by_level(us, level) \o admin_ids)

ChatIds(us, level) ==
  Uniq(IF level = "admins" THEN admin_ids
       ELSE IF level = "all" THEN get_all_users(us) \o admin_ids
       ELSE get_users_by_level(us, level) \o admin_ids)

(* history: the operation of the last step and the post id it was about *)
Op(op, id) == [op |-> op, id |-> id]

Replace(ts, old, new) == (ts (-) SetToBag({old})) (+) SetToBag({new})

Remove(ts, old) == ts (-) SetToBag({old})

(* ------------------------------- Init --------------------------------- *)
Init ==
  /\ now = 0
  /\ up = FALSE
  /\ posts = <<>>
  /\ users = InitUsers
  /\ admin_ids = AdminIds
  /\ teaser = NoTeaser
  /\ trace = NoTrace
  /\ content = NoContent
  /\ seed = NoSeed
  /\ fsm = NoState
  /\ album_tasks = {}
  /\ updates = <<>>
  /\ calls = <<>>
  /\ jobs = {}
  /\ tasks = EmptyBag
  /\ pending = {}
  /\ ops = 0
  /\ crashes = 0
  /\ lastOp = Op("init", 0)

(* ------------------------------ clock --------------------------------- *)
Tick ==
  /\ now < MaxTime
  /\ now' = now + 1
  /\ lastOp' = Op("tick", 0)
  /\ UNCHANGED <<up, posts, conf, trace, jobs, tasks, pending, ops, crashes>>

(* ------------------------------ seeding ------------------------------- *)
(* a date string is the sequence of its blanks and of one token for the
   hour; parse_moscow_datetime strips it and parses it, and raises
   ValueError when what is left is no date *)
Hours == <<"0", "1", "2", "3">>

IsDate(text) == Len(strip(text)) = 1 /\ \E i \in DOMAIN Hours : Hours[i] = strip(text)[1]

parse_moscow_datetime(text) ==
  (CHOOSE i \in DOMAIN Hours : Hours[i] = strip(text)[1]) - 1

NewId(ps) == IF DOMAIN ps = {} THEN 1
             ELSE (CHOOSE m \in DOMAIN ps : \A q \in DOMAIN ps : q <= m) + 1

(* (item.get("level") or "all").strip(): a level is one token between
   blanks *)
SeedLevel(level) ==
  LET l == strip(IF level = <<>> THEN <<"all">> ELSE level)
  IN IF l = <<>> THEN "" ELSE l[1]

(* the idempotency check: select(Post.id) by title, level and send_at *)
SeedExists(ps, title, level, send_at) ==
  \E q \in DOMAIN ps :
     ps[q].title = title /\ ps[q].level = level /\ ps[q].send_at = send_at

(* mutant: no idempotency check *)
SeedItemAlwaysCreates(acc, item) ==
  LET key == strip(item.key)
      title == strip(item.title)
      level == SeedLevel(item.level)
      send_at_s == strip(item.send_at)
      text_html == item.text_html
  IN IF acc.raised # "" THEN acc
     ELSE IF key = <<>> \/ title = <<>> \/ send_at_s = <<>> \/ text_html = <<>>
     THEN acc
     ELSE IF ~IsDate(send_at_s) THEN [acc EXCEPT !.raised = "ValueError"]
     ELSE [posts |-> create_post(acc.posts, NewId(acc.posts), title, text_html,
                                 parse_moscow_datetime(send_at_s), level),
           created |-> acc.created + 1, raised |-> ""]

(* one iteration of the loop of seed_posts_from_json; an absent key of the
   item is <<>> *)
SeedItem(acc, item) ==
  LET key == strip(item.key)
      title == strip(item.title)
      level == SeedLevel(item.level)
      send_at_s == strip(item.send_at)
      text_html == item.text_html
  IN IF acc.raised # "" THEN acc
     ELSE IF key = <<>> \/ title = <<>> \/ send_at_s = <<>> \/ text_html = <<>>
     THEN acc
     ELSE IF ~IsDate(send_at_s) THEN [acc EXCEPT !.raised = "ValueError"]
     ELSE IF SeedExists(acc.posts, title, level, parse_moscow_datetime(send_at_s))
     THEN acc
     ELSE [posts |-> create_post(acc.posts, NewId(acc.posts), title, text_html,
                                 parse_moscow_datetime(send_at_s), level),
           created |-> acc.created + 1, raised |-> ""]

(* seed_posts_from_json: the posts after it, the number it returns and the
   exception it raises ("" for none); every created post is committed at
   once, so what was created before an exception stays *)
seed_posts_from_json(ps, json) ==
  IF json.file = "missing" THEN [posts |-> ps, created |-> 0, raised |-> "FileNotFoundError"]
  ELSE IF json.file = "broken" THEN [posts |-> ps, created |-> 0, raised |-> "JSONDecodeError"]
  ELSE LET step[i \in 0..Len(json.posts)] ==
             IF i = 0 THEN [posts |-> ps, created |-> 0, raised |-> ""]
             ELSE SeedItem(step[i - 1], json.posts[i])
       IN step[Len(json.posts)]

(* --------------------------- process life ----------------------------- *)
(* mutant: the scheduler is set up before the seeding *)
StartSetupBeforeSeed ==
  /\ ~up
  /\ posts' = IF seed.file = "off" THEN posts
              ELSE seed_posts_from_json(posts, seed).posts
  /\ LET r == setup_scheduler(now)
     IN /\ jobs' = r.jobs
        /\ tasks' = r.tasks
  /\ up' = TRUE
  /\ lastOp' = Op("setup_scheduler", 0)
  /\ UNCHANGED <<now, conf, trace, pending, ops, crashes>>

(* main(): with seed_on_start the posts of the seed file are inserted, an
   exception of the seeding is logged, and then the scheduler is set up
   from the store, all before polling starts *)
Start ==
  /\ ~up
  /\ posts' = IF seed.file = "off" THEN posts
              ELSE seed_posts_from_json(posts, seed).posts
  /\ UNCHANGED now
  /\ LET r == setup_scheduler(now)'
     IN /\ jobs' = r.jobs
        /\ tasks' = r.tasks
  /\ up' = TRUE
  /\ lastOp' = Op("setup_scheduler", 0)
  /\ UNCHANGED <<conf, trace, pending, ops, crashes>>

(* the process stops or crashes: timers, runs and handlers are lost *)
Crash ==
  /\ up
  /\ crashes < MaxCrashes
  /\ crashes' = crashes + 1
  /\ up' = FALSE
  /\ lastOp' = Op("crash", 0)
  /\ jobs' = {}
  /\ tasks' = EmptyBag
  /\ pending' = {}
  /\ fsm' = NoState
  /\ album_tasks' = {}
  /\ UNCHANGED <<now, posts, users, admin_ids, teaser, content, calls, seed,
                 updates, trace, ops>>

(* the scheduler processes a due job: it runs _send_post(post_id) unless
   the job is later than misfire_grace_time, and then it is dropped *)
RunJob(j) ==
  /\ up
  /\ j \in jobs
  /\ j.run_date <= now
  /\ jobs' = jobs \ {j}
  /\ IF now - j.run_date > Grace
     THEN /\ tasks' = tasks
          /\ lastOp' = Op("misfire", PostOf(j.id))
     ELSE /\ tasks' = tasks (+) SetToBag({NewTask(PostOf(j.id), "timer", j.armed)})
          /\ lastOp' = Op("fire", PostOf(j.id))
  /\ UNCHANGED <<now, up, posts, conf, trace, pending, ops, crashes>>

(* --------------------------- delivery run ----------------------------- *)
(* get_broadcast_settings: the stored teaser *)
get_broadcast_settings == teaser

(* mutant: a teaser of white space counts as configured *)
TeaserNotStripped(ts) == ts.text # <<>> \/ ts.file_id # ""

(* the test of scheduler.py 63: teaser.teaser_text.strip() or teaser_file_id *)
TeaserConfigured(ts) == strip(ts.text) # <<>> \/ ts.file_id # ""

(* an entry of the history of sends *)
Event(ev, to, kind, post_id, o, t) ==
  [ev |-> ev, to |-> to, kind |-> kind, post |-> post_id, outcome |-> o,
   level |-> t.level, delivered |-> t.sent_count, total |-> t.total_count]

Log(tr, e) == IF tr = NoTrace THEN tr ELSE Append(tr, e)

(* mutant: the run reads the teaser setting anew for every recipient *)
SendEventReadsSetting(t, chat_id, o) ==
  IF TeaserConfigured(teaser)
  THEN Event("send", chat_id, "teaser", t.id, o, t)
  ELSE Event("send", chat_id, "post", 0, o, t)

(* what the run sends to chat_id, with outcome o: the teaser with its Open
   button for the post (_deliver_teaser_to_user), or the post itself
   (_deliver_post_to_user) *)
SendEvent(t, chat_id, o) ==
  IF TeaserConfigured(t.teaser)
  THEN Event("send", chat_id, "teaser", t.id, o, t)
  ELSE Event("send", chat_id, "post", 0, o, t)

(* mutant: the post is not marked, the summary is sent *)
AfterLoopSummaryOnly(old, t, tr) ==
  /\ posts' = posts
  /\ trace' = tr
  /\ IF admin_ids = <<>>
     THEN tasks' = Remove(tasks, old)
     ELSE tasks' = Replace(tasks, old, [t EXCEPT !.pc = "notify", !.idx = 1])

(* what the run does once the recipient loop is over: mark_post_sent, then
   _notify_admins_summary up to its first await; tr is the history so far *)
AfterLoop(old, t, tr) ==
  /\ posts' = mark_post_sent(posts, t.id, now)
  /\ trace' = Log(tr, Event("mark_sent", 0, "", t.id, "", t))
  /\ IF admin_ids = <<>>
     THEN tasks' = Remove(tasks, old)
     ELSE tasks' = Replace(tasks, old, [t EXCEPT !.pc = "notify", !.idx = 1])

(* mutant: the run uses the level and text the job closed over *)
LoadPostAsArmed(t) ==
  [posts[t.id] EXCEPT !.level = t.armed.level, !.text = t.armed.text]

(* the post as the run loads it (get_post in the run's session) *)
LoadPost(t) == posts[t.id]

(* the run after its checks: recipients, counters and the teaser are read
   in the session db that the run opened at its start and closes in its
   finally clause, when it ends *)
Resolved(t) ==
  LET post == LoadPost(t)
      chat_ids == ChatIds(users, post.level)
  IN [t EXCEPT !.pc = "loop", !.level = post.level, !.text = post.text,
               !.chat_ids = chat_ids, !.total_count = Len(chat_ids),
               !.teaser = get_broadcast_settings, !.idx = 1, !.db = "open"]

(* mutant: the run does not look at the sent flag *)
SendPostStartNoSentCheck(t) ==
  /\ up
  /\ t \in BagToSet(tasks)
  /\ t.pc = "start"
  /\ IF ~Stored(t.id)
     THEN /\ tasks' = Remove(tasks, t)
          /\ lastOp' = Op("_send_post: not found", t.id)
          /\ UNCHANGED <<posts, trace>>
     ELSE LET run == Resolved(t)
          IN /\ lastOp' = Op(IF t.via = "timer" THEN "_send_post by timer"
                              ELSE IF t.via = "now" THEN "_send_post now"
                              ELSE "_send_post at startup", t.id)
             /\ IF run.chat_ids = <<>>
                THEN AfterLoop(t, run, trace)
                ELSE /\ tasks' = Replace(tasks, t, run)
                     /\ UNCHANGED <<posts, trace>>
  /\ UNCHANGED <<now, up, conf, jobs, pending, ops, crashes>>

(* mutant: a run that does not find its post reports to the administrators *)
SendPostStartNotifiesNotFound(t) ==
  /\ up
  /\ t \in BagToSet(tasks)
  /\ t.pc = "start"
  /\ IF ~Stored(t.id)
     THEN /\ tasks' = Replace(tasks, t, [t EXCEPT !.pc = "notify", !.idx = 1])
          /\ lastOp' = Op("_send_post: not found", t.id)
          /\ UNCHANGED <<posts, trace>>
     ELSE IF LoadPost(t).sent
     THEN /\ tasks' = Remove(tasks, t)
          /\ lastOp' = Op("_send_post: sent", t.id)
          /\ UNCHANGED <<posts, trace>>
     ELSE LET run == Resolved(t)
          IN /\ lastOp' = Op(IF t.via = "timer" THEN "_send_post by timer"
                              ELSE IF t.via = "now" THEN "_send_post now"
                              ELSE "_send_post at startup", t.id)
             /\ IF run.chat_ids = <<>>
                THEN AfterLoop(t, run, trace)
                ELSE /\ tasks' = Replace(tasks, t, run)
                     /\ UNCHANGED <<posts, trace>>
  /\ UNCHANGED <<now, up, conf, jobs, pending, ops, crashes>>

(* _send_post from its start to its first send (or, with no recipient, to
   the summary) *)
SendPostStart(t) ==
  /\ up
  /\ t \in BagToSet(tasks)
  /\ t.pc = "start"
  /\ IF ~Stored(t.id)
     THEN /\ tasks' = Remove(tasks, t)
          /\ lastOp' = Op("_send_post: not found", t.id)
          /\ UNCHANGED <<posts, trace>>
     ELSE IF LoadPost(t).sent
     THEN /\ tasks' = Remove(tasks, t)
          /\ lastOp' = Op("_send_post: sent", t.id)
          /\ UNCHANGED <<posts, trace>>
     ELSE LET run == Resolved(t)
          IN /\ lastOp' = Op(IF t.via = "timer" THEN "_send_post by timer"
                              ELSE IF t.via = "now" THEN "_send_post now"
                              ELSE "_send_post at startup", t.id)
             /\ IF run.chat_ids = <<>>
                THEN AfterLoop(t, run, trace)
                ELSE /\ tasks' = Replace(tasks, t, run)
                     /\ UNCHANGED <<posts, trace>>
  /\ UNCHANGED <<now, up, conf, jobs, pending, ops, crashes>>

(* mutant: any other error ends the recipient loop *)
SendPostDeliverStopsOnError(t, o) ==
  /\ up
  /\ t \in BagToSet(tasks)
  /\ t.pc = "loop"
  /\ t.idx <= Len(t.chat_ids)
  /\ lastOp' = Op(IF o = "ok" THEN "delivered" ELSE "not delivered", t.id)
  /\ LET counted == IF o = "ok" THEN [t EXCEPT !.sent_count = t.sent_count + 1] ELSE t
         next == [counted EXCEPT !.idx = t.idx + 1]
         tr == Log(trace, SendEvent(counted, t.chat_ids[t.idx], o))
     IN IF o \in {"ok", "retry_after"} \/ (t.idx < Len(t.chat_ids) /\ o # "error")
        THEN /\ tasks' = Replace(tasks, t, next)
             /\ trace' = tr
             /\ UNCHANGED posts
        ELSE AfterLoop(t, next, tr)
  /\ UNCHANGED <<now, up, conf, jobs, pending, ops, crashes>>

(* mutant: a recipient that cannot be reached is counted as delivered *)
SendPostDeliverCountsForbidden(t, o) ==
  /\ up
  /\ t \in BagToSet(tasks)
  /\ t.pc = "loop"
  /\ t.idx <= Len(t.chat_ids)
  /\ lastOp' = Op(IF o = "ok" THEN "delivered" ELSE "not delivered", t.id)
  /\ LET counted == IF o \in {"ok", "forbidden"}
                    THEN [t EXCEPT !.sent_count = t.sent_count + 1] ELSE t
         next == [counted EXCEPT !.idx = t.idx + 1]
         tr == Log(trace, SendEvent(counted, t.chat_ids[t.idx], o))
     IN IF o \in {"ok", "retry_after"} \/ t.idx < Len(t.chat_ids)
        THEN /\ tasks' = Replace(tasks, t, next)
             /\ trace' = tr
             /\ UNCHANGED posts
        ELSE AfterLoop(t, next, tr)
  /\ UNCHANGED <<now, up, conf, jobs, pending, ops, crashes>>

(* the send to chat_ids[idx] ends with outcome o: after a success
   sent_count is raised and the run sleeps; after TelegramRetryAfter it
   sleeps; after any other error it goes on at once, to the next recipient
   or, after the last one, to the end of the loop *)
SendPostDeliver(t, o) ==
  /\ up
  /\ t \in BagToSet(tasks)
  /\ t.pc = "loop"
  /\ t.idx <= Len(t.chat_ids)
  /\ lastOp' = Op(IF o = "ok" THEN "delivered" ELSE "not delivered", t.id)
  /\ LET counted == IF o = "ok" THEN [t EXCEPT !.sent_count = t.sent_count + 1] ELSE t
         next == [counted EXCEPT !.idx = t.idx + 1]
         tr == Log(trace, SendEvent(counted, t.chat_ids[t.idx], o))
     IN IF o \in {"ok", "retry_after"} \/ t.idx < Len(t.chat_ids)
        THEN /\ tasks' = Replace(tasks, t, next)
             /\ trace' = tr
             /\ UNCHANGED posts
        ELSE AfterLoop(t, next, tr)
  /\ UNCHANGED <<now, up, conf, jobs, pending, ops, crashes>>

(* the sleep after the last recipient ends *)
SendPostFinish(t) ==
  /\ up
  /\ t \in BagToSet(tasks)
  /\ t.pc = "loop"
  /\ t.idx > Len(t.chat_ids)
  /\ AfterLoop(t, t, trace)
  /\ lastOp' = Op("loop end", t.id)
  /\ UNCHANGED <<now, up, conf, jobs, pending, ops, crashes>>

(* mutant: the error of the store is swallowed and the summary is sent *)
AfterLoopFailsButNotifies(old, t, tr) ==
  /\ posts' = posts
  /\ trace' = Log(tr, Event("abort", 0, "", t.id, "", t))
  /\ IF admin_ids = <<>>
     THEN tasks' = Remove(tasks, old)
     ELSE tasks' = Replace(tasks, old, [t EXCEPT !.pc = "notify", !.idx = 1])

(* mark_post_sent raises (its read or its commit fails): the exception
   leaves _send_post through the finally clause, which closes the session;
   nothing is committed and _notify_admins_summary is not reached *)
AfterLoopFails(old, t, tr) ==
  /\ posts' = posts
  /\ trace' = Log(tr, Event("abort", 0, "", t.id, "", t))
  /\ tasks' = Remove(tasks, old)

(* a read of the store raises before the first send (get_post,
   get_post_media, the users, get_broadcast_settings): the run ends *)
SendPostReadFails(t) ==
  /\ up
  /\ t \in BagToSet(tasks)
  /\ t.pc = "start"
  /\ tasks' = Remove(tasks, t)
  /\ trace' = Log(trace, Event("abort", 0, "", t.id, "", t))
  /\ lastOp' = Op("_send_post: store error", t.id)
  /\ UNCHANGED <<now, up, posts, conf, jobs, pending, ops, crashes>>

(* the send to the last recipient fails and mark_post_sent raises *)
SendPostDeliverMarkFails(t, o) ==
  /\ up
  /\ t \in BagToSet(tasks)
  /\ t.pc = "loop"
  /\ t.idx = Len(t.chat_ids)
  /\ o \notin {"ok", "retry_after"}
  /\ AfterLoopFails(t, [t EXCEPT !.idx = t.idx + 1],
                    Log(trace, SendEvent(t, t.chat_ids[t.idx], o)))
  /\ lastOp' = Op("_send_post: store error", t.id)
  /\ UNCHANGED <<now, up, conf, jobs, pending, ops, crashes>>

(* the sleep after the last recipient ends and mark_post_sent raises *)
SendPostFinishMarkFails(t) ==
  /\ up
  /\ t \in BagToSet(tasks)
  /\ t.pc = "loop"
  /\ t.idx > Len(t.chat_ids)
  /\ AfterLoopFails(t, t, trace)
  /\ lastOp' = Op("_send_post: store error", t.id)
  /\ UNCHANGED <<now, up, conf, jobs, pending, ops, crashes>>

(* mutant: the send to an administrator is repeated after any outcome *)
NotifyAdminsRetriesAlways(t, o) ==
  /\ up
  /\ t \in BagToSet(tasks)
  /\ t.pc \in {"notify", "notify_retry"}
  /\ lastOp' = Op("notify", t.id)
  /\ trace' = Log(trace, Event("summary", admin_ids[t.idx], "summary", t.id, o, t))
  /\ IF t.pc = "notify"
     THEN tasks' = Replace(tasks, t, [t EXCEPT !.pc = "notify_retry"])
     ELSE IF t.idx < Len(admin_ids)
     THEN tasks' = Replace(tasks, t, [t EXCEPT !.pc = "notify", !.idx = t.idx + 1])
     ELSE tasks' = Remove(tasks, t)
  /\ UNCHANGED <<now, up, posts, conf, jobs, pending, ops, crashes>>

(* mutant: an administrator that cannot be reached ends the notification *)
NotifyAdminsStopsOnError(t, o) ==
  /\ up
  /\ t \in BagToSet(tasks)
  /\ t.pc \in {"notify", "notify_retry"}
  /\ lastOp' = Op("notify", t.id)
  /\ trace' = Log(trace, Event("summary", admin_ids[t.idx], "summary", t.id, o, t))
  /\ IF o = "retry_after" /\ t.pc = "notify"
     THEN tasks' = Replace(tasks, t, [t EXCEPT !.pc = "notify_retry"])
     ELSE IF t.idx < Len(admin_ids) /\ o \notin {"forbidden", "bad_request"}
     THEN tasks' = Replace(tasks, t, [t EXCEPT !.pc = "notify", !.idx = t.idx + 1])
     ELSE tasks' = Remove(tasks, t)
  /\ UNCHANGED <<now, up, posts, conf, jobs, pending, ops, crashes>>

(* _notify_admins_summary: the send to admin_ids[idx] ends with outcome o;
   after TelegramRetryAfter the same administrator is tried once more *)
NotifyAdmins(t, o) ==
  /\ up
  /\ t \in BagToSet(tasks)
  /\ t.pc \in {"notify", "notify_retry"}
  /\ lastOp' = Op("notify", t.id)
  /\ trace' = Log(trace, Event("summary", admin_ids[t.idx], "summary", t.id, o, t))
  /\ IF o = "retry_after" /\ t.pc = "notify"
     THEN tasks' = Replace(tasks, t, [t EXCEPT !.pc = "notify_retry"])
     ELSE IF t.idx < Len(admin_ids)
     THEN tasks' = Replace(tasks, t, [t EXCEPT !.pc = "notify", !.idx = t.idx + 1])
     ELSE tasks' = Remove(tasks, t)
  /\ UNCHANGED <<now, up, posts, conf, jobs, pending, ops, crashes>>

(* ----------------------------- rendering ----------------------------- *)
(* Telegram's caption limit, as _deliver_post_to_user tests it *)
CaptionLimit == 1024

(* caption=None of an album item or of a call that carries no caption *)
NoCaption == <<"<None>">>

(* (media_type or "").strip().lower(), on the media types of the model *)
lower_strip(media_type) == IF media_type = "Photo " THEN "photo" ELSE media_type

(* a transport call to chat_id: a text message, a single media item with
   its caption, a grouped album *)
TextCall(chat_id, text) ==
  [method |-> "send_message", to |-> chat_id, media |-> "", text |-> text,
   album |-> <<>>]

MediaCall(chat_id, kind, file_id, caption) ==
  [method |-> "send_" \o kind, to |-> chat_id, media |-> file_id, text |-> caption,
   album |-> <<>>]

GroupCall(chat_id, album) ==
  [method |-> "send_media_group", to |-> chat_id, media |-> "", text |-> NoCaption,
   album |-> album]

(* mutant: a text of exactly the limit is sent as a trailing message *)
AlbumCaptionBelowLimit(text) == IF Len(text) < CaptionLimit THEN text ELSE <<>>

(* the caption of the album: the text when it fits *)
AlbumCaption(text) == IF Len(text) <= CaptionLimit THEN text ELSE <<>>

(* the album built from the album rows: photos and videos, the caption on
   the row of index 0 *)
Album(media_items, caption) ==
  LET row(i) == [type |-> lower_strip(media_items[i].media_type),
                 media |-> media_items[i].file_id,
                 caption |-> IF i = 1 THEN caption ELSE NoCaption]
  IN SelectSeq([i \in DOMAIN media_items |-> row(i)],
               LAMBDA it : it.type \in {"photo", "video"})

(* the calls for a post without album (scheduler.py 132-157, and
   handlers.py 91-116 through message.answer...) *)
SingleCalls(chat_id, post) ==
  LET media_type == lower_strip(post.media_type)
      file_id == post.file_id
      text == post.text
  IN IF media_type = "" \/ file_id = ""
     THEN <<TextCall(chat_id, text)>>
     ELSE IF media_type \in {"photo", "video", "document", "audio", "voice"}
     THEN <<MediaCall(chat_id, media_type, file_id, text)>>
     ELSE IF media_type = "video_note"
     THEN <<MediaCall(chat_id, "video_note", file_id, NoCaption)>>
          \o (IF strip(text) # <<>> THEN <<TextCall(chat_id, text)>> ELSE <<>>)
     ELSE <<TextCall(chat_id, text)>>

(* mutant: the single media item is preferred to the album *)
DeliverSingleBeforeAlbum(chat_id, post, media_items) ==
  LET caption == AlbumCaption(post.text)
      tail_text == IF caption # <<>> THEN <<>> ELSE post.text
      album == Album(media_items, caption)
  IN IF lower_strip(post.media_type) # "" /\ post.file_id # ""
     THEN SingleCalls(chat_id, post)
     ELSE IF media_items # <<>> /\ album # <<>>
     THEN <<GroupCall(chat_id, album)>>
          \o (IF strip(tail_text) # <<>> THEN <<TextCall(chat_id, tail_text)>> ELSE <<>>)
     ELSE SingleCalls(chat_id, post)

(* _deliver_post_to_user: the transport calls it makes, in order *)
_deliver_post_to_user(chat_id, post, media_items) ==
  LET caption == AlbumCaption(post.text)
      tail_text == IF caption # <<>> THEN <<>> ELSE post.text
      album == Album(media_items, caption)
  IN IF media_items # <<>> /\ album # <<>>
     THEN <<GroupCall(chat_id, album)>>
          \o (IF strip(tail_text) # <<>> THEN <<TextCall(chat_id, tail_text)>> ELSE <<>>)
     ELSE SingleCalls(chat_id, post)

(* _deliver_post_to_chat: message.answer... sends to the chat of the
   teaser message *)
_deliver_post_to_chat(chat_id, post) == SingleCalls(chat_id, post)

(* open_post_callback for the Open button of post_id pressed in chat_id:
   the calls it makes, in order *)
open_post_callback(ps, chat_id, post_id, post) ==
  IF post_id \notin DOMAIN ps
  THEN <<[method |-> "answer_callback_query", to |-> chat_id, media |-> "",
          text |-> <<"not found">>, album |-> <<>>]>>
  ELSE <<[method |-> "edit_message_reply_markup", to |-> chat_id, media |-> "",
          text |-> NoCaption, album |-> <<>>]>>
       \o _deliver_post_to_chat(chat_id, post)
       \o <<[method |-> "answer_callback_query", to |-> chat_id, media |-> "",
             text |-> <<>>, album |-> <<>>]>>

(* --------------------------- admin handlers --------------------------- *)
(* create_send_at: create_post, update_post_content, schedule_or_send_now *)
CreateSendAt(send_at, level, text) ==
  /\ up
  /\ ops < MaxOps
  /\ NextPostId \in PostIds
  /\ LET id == NextPostId
         ps == update_post_content(create_post(posts, id, <<"t">>, text, send_at, level),
                                   id, text, "", "", <<>>)
         r == schedule_or_send_now(ps[id], now, jobs, tasks)
     IN /\ posts' = ps
        /\ jobs' = r.jobs
        /\ tasks' = r.tasks
  /\ ops' = ops + 1
  /\ lastOp' = Op("create_send_at", NextPostId)
  /\ UNCHANGED <<now, up, conf, trace, pending, crashes>>

(* edit_send_at: update_post_send_time, then schedule_or_send_now with the
   post it returned. The await between the two, state.clear(), is on the
   in-memory wizard storage that Dispatcher() sets up and completes without
   yielding to the event loop, so no other handler or run comes between *)
EditSendAt(p, send_at) ==
  /\ up
  /\ ops < MaxOps
  /\ posts' = update_post_send_time(posts, p, send_at)
  /\ IF Stored(p)
     THEN LET r == schedule_or_send_now(posts'[p], now, jobs, tasks)
          IN /\ jobs' = r.jobs
             /\ tasks' = r.tasks
     ELSE UNCHANGED <<jobs, tasks>>
  /\ ops' = ops + 1
  /\ lastOp' = Op("edit_send_at", p)
  /\ UNCHANGED <<now, up, conf, trace, pending, crashes>>

(* edit_pick_level *)
EditPickLevel(p, level) ==
  /\ up
  /\ ops < MaxOps
  /\ posts' = update_post_level(posts, p, level)
  /\ ops' = ops + 1
  /\ lastOp' = Op("update_post_level", p)
  /\ UNCHANGED <<now, up, conf, trace, jobs, tasks, pending, crashes>>

(* edit_content, single message *)
EditContent(p, text) ==
  /\ up
  /\ ops < MaxOps
  /\ posts' = update_post_content(posts, p, text, "", "", <<>>)
  /\ ops' = ops + 1
  /\ lastOp' = Op("update_post_content", p)
  /\ UNCHANGED <<now, up, conf, trace, jobs, tasks, pending, crashes>>

(* mutant: the record is deleted, the timer stays *)
DelYesKeepsTimer(p) ==
  /\ up
  /\ ops < MaxOps
  /\ jobs' = jobs
  /\ posts' = delete_post(posts, p)
  /\ ops' = ops + 1
  /\ lastOp' = Op(IF Stored(p) THEN "del_yes: deleted" ELSE "del_yes: already deleted", p)
  /\ UNCHANGED <<now, up, conf, trace, tasks, pending, crashes>>

(* post_action, del_yes: unschedule_post then delete_post, no await between;
   the answer tells whether delete_post found the post *)
PostActionDelYes(p) ==
  /\ up
  /\ ops < MaxOps
  /\ jobs' = unschedule_post(jobs, p)
  /\ posts' = delete_post(posts, p)
  /\ ops' = ops + 1
  /\ lastOp' = Op(IF Stored(p) THEN "del_yes: deleted" ELSE "del_yes: already deleted", p)
  /\ UNCHANGED <<now, up, conf, trace, tasks, pending, crashes>>

(* ---------------- the scheduler's public surface, called directly ------ *)
ApiScheduleOrSendNow(p) ==
  /\ up
  /\ ops < MaxOps
  /\ Stored(p)
  /\ LET r == schedule_or_send_now(posts[p], now, jobs, tasks)
     IN /\ jobs' = r.jobs
        /\ tasks' = r.tasks
  /\ ops' = ops + 1
  /\ lastOp' = Op("schedule_or_send_now", p)
  /\ UNCHANGED <<now, up, posts, conf, trace, pending, crashes>>

ApiUnschedulePost(p) ==
  /\ up
  /\ ops < MaxOps
  /\ jobs' = unschedule_post(jobs, p)
  /\ ops' = ops + 1
  /\ lastOp' = Op(IF \E j \in jobs : j.id = _job_id(p)
                  THEN "unschedule_post: removed" ELSE "unschedule_post: no timer", p)
  /\ UNCHANGED <<now, up, posts, conf, trace, tasks, pending, crashes>>

(* ------------------------- specifications ----------------------------- *)
RunStep ==
  \/ \E j \in jobs : RunJob(j)
  \/ \E t \in BagToSet(tasks) : SendPostStart(t)
  \/ \E t \in BagToSet(tasks), o \in Outcomes : SendPostDeliver(t, o)
  \/ \E t \in BagToSet(tasks) : SendPostFinish(t)
  \/ \E t \in BagToSet(tasks), o \in Outcomes : NotifyAdmins(t, o)

SendTimeStep ==
  \/ \E s \in Time : CreateSendAt(s, "all", <<"a">>)
  \/ \E p \in PostIds, s \in Time : EditSendAt(p, s)
  \/ \E p \in PostIds : PostActionDelYes(p)

ContentStep ==
  \/ \E p \in PostIds, l \in EditLevels : EditPickLevel(p, l)
  \/ \E p \in PostIds, x \in Texts : EditContent(p, x)

Next ==
  \/ Tick
  \/ Start
  \/ Crash
  \/ RunStep
  \/ SendTimeStep
  \/ ContentStep

Spec == Init /\ [][Next]_vars

(* the program with its scheduler surface also called directly *)
ApiNext ==
  \/ Tick
  \/ Start
  \/ RunStep
  \/ SendTimeStep
  \/ \E p \in PostIds : ApiScheduleOrSendNow(p)
  \/ \E p \in PostIds : ApiUnschedulePost(p)

ApiSpec == Init /\ [][ApiNext]_vars

(* the program on an event loop that processes every due timer within the
   misfire grace time, with weak fairness of the loop's own steps: the
   clock, the start of the process, timers and runs, and the continuation
   of a suspended handler *)
TimelyTick ==
  /\ \A j \in jobs : now - j.run_date < Grace
  /\ Tick

FairNext ==
  \/ TimelyTick
  \/ Start
  \/ Crash
  \/ RunStep
  \/ SendTimeStep

FairSpec ==
  /\ Init
  /\ [][FairNext]_vars
  /\ WF_vars(TimelyTick)
  /\ WF_vars(Start)
  /\ WF_vars(RunStep)

(* one delivery run of a due post, for every choice of registered users,
   administrators and post level; every send succeeds, the history of
   sends is kept *)
ResolverInit ==
  /\ now = 0
  /\ up = TRUE
  /\ \E level \in PostLevelChoices : posts = create_post(<<>>, 1, <<"t">>, <<"a">>, 0, level)
  /\ users \in UserMaps
  /\ admin_ids \in AdminChoices
  /\ teaser = NoTeaser
  /\ trace = <<>>
  /\ content = NoContent
  /\ seed = NoSeed
  /\ fsm = NoState
  /\ album_tasks = {}
  /\ updates = <<>>
  /\ calls = <<>>
  /\ jobs = {}
  /\ tasks = SetToBag({NewTask(1, "now", Armed(posts[1]))})
  /\ pending = {}
  /\ ops = 0
  /\ crashes = 0
  /\ lastOp = Op("init", 0)

ResolverNext ==
  \/ \E t \in BagToSet(tasks) : SendPostStart(t)
  \/ \E t \in BagToSet(tasks) : SendPostDeliver(t, "ok")
  \/ \E t \in BagToSet(tasks) : SendPostFinish(t)
  \/ \E t \in BagToSet(tasks) : NotifyAdmins(t, "ok")

ResolverSpec == ResolverInit /\ [][ResolverNext]_vars

(* the teasers a run is tried with: none, white space only, a text, a media
   file without text *)
TeaserChoices ==
  {NoTeaser,
   [text |-> <<" ">>, file_id |-> ""],
   [text |-> <<" ", "h">>, file_id |-> ""],
   [text |-> <<>>, file_id |-> "file1"]}

(* the registered users and the administrators a run is tried with *)
DeliveryUsers ==
  {<<>>, (1 :> "starters"), (1 :> "starters") @@ (2 :> NoLevel)}
DeliveryAdmins == {<<>>, <<3>>, <<1>>, <<3, 1>>}

(* one delivery run of a due post for all users; every send, to a recipient
   or to an administrator, ends with any of the outcomes; the history of
   sends is kept *)
DeliveryInit ==
  /\ now = 0
  /\ up = TRUE
  /\ posts = create_post(<<>>, 1, <<"t">>, <<"a">>, 0, "all")
  /\ users \in DeliveryUsers
  /\ admin_ids \in DeliveryAdmins
  /\ teaser \in TeaserChoices
  /\ trace = <<>>
  /\ content = NoContent
  /\ seed = NoSeed
  /\ fsm = NoState
  /\ album_tasks = {}
  /\ updates = <<>>
  /\ calls = <<>>
  /\ jobs = {}
  /\ tasks = SetToBag({NewTask(1, "now", Armed(posts[1]))})
  /\ pending = {}
  /\ ops = 0
  /\ crashes = 0
  /\ lastOp = Op("init", 0)

DeliveryNext ==
  \/ \E t \in BagToSet(tasks) : SendPostStart(t)
  \/ \E t \in BagToSet(tasks), o \in Outcomes : SendPostDeliver(t, o)
  \/ \E t \in BagToSet(tasks) : SendPostFinish(t)
  \/ \E t \in BagToSet(tasks), o \in Outcomes : NotifyAdmins(t, o)

DeliverySpec == DeliveryInit /\ [][DeliveryNext]_vars

(* the store's functions called in any order, on stored and on unknown
   ids, as the clock advances *)
StoreCall(op, id, ps) ==
  /\ posts' = ps
  /\ lastOp' = Op(op, id)
  /\ UNCHANGED <<now, up, conf, trace, jobs, tasks, pending, ops, crashes>>

StoreNext ==
  \/ Tick
  \/ \E x \in Texts, s \in Time, l \in EditLevels :
       /\ NextPostId <= MaxPosts
       /\ StoreCall("create_post", NextPostId, create_post(posts, NextPostId, <<"t">>, x, s, l))
  \/ \E p \in PostIds, x \in Texts \cup {NoText} :
       StoreCall("update_post_text_title", p, update_post_text_title(posts, p, NoTitle, x))
  \/ \E p \in PostIds, x \in Texts :
       StoreCall("update_post_content", p,
                 update_post_content(posts, p, x, "", "", <<>>))
  \/ \E p \in PostIds, l \in EditLevels :
       StoreCall("update_post_level", p, update_post_level(posts, p, l))
  \/ \E p \in PostIds, s \in Time :
       StoreCall("update_post_send_time", p, update_post_send_time(posts, p, s))
  \/ \E p \in PostIds :
       StoreCall("mark_post_sent", p, mark_post_sent(posts, p, now))

StoreSpec == Init /\ [][StoreNext]_vars

(* the program with a store that can fail: one post, due or not yet due
   when the process starts; timers, runs with every outcome of a send,
   failing reads and commits of the store, crash and restart; the history
   of sends is kept *)
FaultInit ==
  /\ now = 0
  /\ up = FALSE
  /\ \E s \in {0, 1} : posts = create_post(<<>>, 1, <<"t">>, <<"a">>, s, "all")
  /\ users = InitUsers
  /\ admin_ids = AdminIds
  /\ teaser = NoTeaser
  /\ trace = <<>>
  /\ content = NoContent
  /\ seed = NoSeed
  /\ fsm = NoState
  /\ album_tasks = {}
  /\ updates = <<>>
  /\ calls = <<>>
  /\ jobs = {}
  /\ tasks = EmptyBag
  /\ pending = {}
  /\ ops = 0
  /\ crashes = 0
  /\ lastOp = Op("init", 0)

FaultNext ==
  \/ Tick
  \/ Start
  \/ Crash
  \/ \E j \in jobs : RunJob(j)
  \/ \E t \in BagToSet(tasks) : SendPostStart(t)
  \/ \E t \in BagToSet(tasks), o \in Outcomes : SendPostDeliver(t, o)
  \/ \E t \in BagToSet(tasks) : SendPostFinish(t)
  \/ \E t \in BagToSet(tasks) : NotifyAdmins(t, "ok")
  \/ \E t \in BagToSet(tasks) : SendPostReadFails(t)
  \/ \E t \in BagToSet(tasks), o \in Outcomes : SendPostDeliverMarkFails(t, o)
  \/ \E t \in BagToSet(tasks) : SendPostFinishMarkFails(t)

FaultSpec == FaultInit /\ [][FaultNext]_vars

(* the rendering of a post for one recipient, directly and by the Open
   button, for every shape of content: texts around the caption limit,
   every single media kind, albums of photos and videos *)
Chars(n) == [i \in 1..n |-> "x"]

RenderTexts ==
  {<<>>, <<"x">>, <<" ", "x", " ">>,
   Chars(CaptionLimit - 1), Chars(CaptionLimit), Chars(CaptionLimit + 1)}

RenderMediaTypes ==
  {"", "photo", "Photo ", "video", "document", "audio", "voice", "video_note",
   "sticker"}

RenderAlbums ==
  {<<>>,
   <<[media_type |-> "photo", file_id |-> "a1"]>>,
   <<[media_type |-> "photo", file_id |-> "a1"],
     [media_type |-> "video", file_id |-> "a2"]>>}

RenderContents ==
  [text : RenderTexts, media_type : RenderMediaTypes, file_id : {"", "f1"},
   media_items : RenderAlbums]

RenderChats == {1, 2}

RenderInit ==
  /\ now = 0
  /\ up = TRUE
  /\ posts \in {<<>>, create_post(<<>>, 1, <<"t">>, <<"a">>, 0, "all")}
  /\ users = InitUsers
  /\ admin_ids = AdminIds
  /\ teaser = NoTeaser
  /\ trace = NoTrace
  /\ content \in RenderContents
  /\ seed = NoSeed
  /\ fsm = NoState
  /\ album_tasks = {}
  /\ updates = <<>>
  /\ calls = <<>>
  /\ jobs = {}
  /\ tasks = EmptyBag
  /\ pending = {}
  /\ ops = 0
  /\ crashes = 0
  /\ lastOp = Op("init", 0)

DeliverPostToUser(chat_id) ==
  /\ Stored(1)
  /\ calls' = _deliver_post_to_user(chat_id, content, content.media_items)
  /\ lastOp' = Op("_deliver_post_to_user", chat_id)
  /\ UNCHANGED <<now, up, posts, users, admin_ids, teaser, content, trace, jobs,
                 tasks, pending, ops, crashes, seed, fsm, album_tasks, updates>>

OpenPost(chat_id) ==
  /\ calls' = open_post_callback(posts, chat_id, 1, content)
  /\ lastOp' = Op("open_post_callback", chat_id)
  /\ UNCHANGED <<now, up, posts, users, admin_ids, teaser, content, trace, jobs,
                 tasks, pending, ops, crashes, seed, fsm, album_tasks, updates>>

RenderNext ==
  \/ \E c \in RenderChats : DeliverPostToUser(c)
  \/ \E c \in RenderChats : OpenPost(c)

RenderSpec == RenderInit /\ [][RenderNext]_vars

(* the program from the state its first create_send_at leaves: post 1
   stored, its run dispatched when it is due, its timer armed when not *)
PostedInit ==
  /\ now = 0
  /\ up = TRUE
  /\ \E s \in {0, 1} :
       /\ posts = update_post_content(create_post(<<>>, 1, <<"t">>, <<"a">>, s, "all"),
                                      1, <<"a">>, "", "", <<>>)
       /\ LET r == schedule_or_send_now(posts[1], 0, {}, EmptyBag)
          IN jobs = r.jobs /\ tasks = r.tasks
  /\ users = InitUsers
  /\ admin_ids = AdminIds
  /\ teaser = NoTeaser
  /\ trace = NoTrace
  /\ content = NoContent
  /\ seed = NoSeed
  /\ fsm = NoState
  /\ album_tasks = {}
  /\ updates = <<>>
  /\ calls = <<>>
  /\ pending = {}
  /\ ops = 0
  /\ crashes = 0
  /\ lastOp = Op("create_send_at", 1)

(* the process started with seed_on_start on every shape of seed file: a
   missing one, one that is no JSON, and lists of up to MaxSeedItems items,
   complete ones, two that differ in key and blanks only, ones that lack a
   key, and one whose send_at is no date *)
MaxSeedItems == 2

SeedA ==
  [key |-> <<"k">>, title |-> <<"a">>, level |-> <<>>, send_at |-> <<"1">>,
   text_html |-> <<"x">>]

SeedA2 ==
  [key |-> <<"m">>, title |-> <<" ", "a">>, level |-> <<"all", " ">>,
   send_at |-> <<" ", "1">>, text_html |-> <<"y">>]

SeedB ==
  [key |-> <<"k">>, title |-> <<"b">>, level |-> <<"starters">>,
   send_at |-> <<"0">>, text_html |-> <<"x">>]

SeedC == [SeedB EXCEPT !.title = <<"c">>, !.send_at = <<"2">>]

SeedItems ==
  {SeedA, SeedA2, SeedB,
   [SeedC EXCEPT !.key = <<>>], [SeedC EXCEPT !.title = <<" ">>],
   [SeedC EXCEPT !.send_at = <<>>], [SeedC EXCEPT !.text_html = <<>>],
   [SeedC EXCEPT !.send_at = <<"x">>]}

SeedFiles ==
  {[file |-> "missing", posts |-> <<>>], [file |-> "broken", posts |-> <<>>]}
  \cup {[file |-> "ok", posts |-> items] :
          items \in UNION {[1..n -> SeedItems] : n \in 0..MaxSeedItems}}

SeedInit ==
  /\ now = 0
  /\ up = FALSE
  /\ posts = <<>>
  /\ seed \in SeedFiles
  /\ users = InitUsers /\ admin_ids = AdminIds /\ teaser = NoTeaser
  /\ trace = NoTrace /\ content = NoContent /\ calls = <<>>
  /\ fsm = NoState /\ album_tasks = {}
  /\ updates = <<>>
  /\ jobs = {} /\ tasks = EmptyBag
  /\ pending = {} /\ ops = 0 /\ crashes = 0
  /\ lastOp = Op("init", 0)

SeedNext ==
  \/ Tick
  \/ Start
  \/ Crash
  \/ RunStep

SeedSpec == SeedInit /\ [][SeedNext]_vars

(* timers and runs, restart, and the two handlers that change the timers
   of a stored post: edit_send_at and the confirmed delete *)
PostedNext ==
  \/ Tick
  \/ Start
  \/ Crash
  \/ RunStep
  \/ \E p \in PostIds, s \in Time : EditSendAt(p, s)
  \/ \E p \in PostIds : PostActionDelYes(p)

PostedSpec == PostedInit /\ [][PostedNext]_vars

(* ------------------------------ wizard -------------------------------- *)
(* mutant: every sender with an id passes *)
IsAdminAnyId(user_id) == user_id # 0

_is_admin(user_id) ==
  user_id # 0 /\ \E i \in DOMAIN admin_ids : admin_ids[i] = user_id

(* the wizard context the state filters and the handlers of sender u see *)
Ctx(u) == IF u \in DOMAIN fsm THEN fsm[u] ELSE NoContext

SetCtx(u, state, data) == [fsm EXCEPT ![u] = [state |-> state, data |-> data]]

(* a message: its text or caption, its media kind with the file id, and
   its media_group_id, "" for None *)
Message(text, media_type, file_id, media_group_id) ==
  [text |-> text, media_type |-> media_type, file_id |-> file_id,
   media_group_id |-> media_group_id]

SupportedMedia == {"photo", "video", "voice", "video_note", "audio", "document"}

_extract_message_content(message) ==
  IF message.media_type \in SupportedMedia
  THEN [text |-> message.text, media_type |-> message.media_type,
        file_id |-> message.file_id]
  ELSE [text |-> message.text, media_type |-> "", file_id |-> ""]

IsAlbumItem(message) ==
  message.media_group_id # "" /\ message.media_type \in {"photo", "video"}

AlbumItem(message) == [media_type |-> message.media_type, file_id |-> message.file_id]

(* what no handler of the wizard changes; the update a handler is called
   with is taken from the updates in flight by the step that calls it *)
fixed == <<now, up, users, admin_ids, content, calls, seed, ops, crashes>>
outside == <<fixed, trace>>

(* the entries of the history, where one is kept, for an album item that
   has arrived and for an album that _finalize has written *)
AlbumArrived(message) == [ev |-> "album item", item |-> AlbumItem(message)]
AlbumFinalized(into, items) == [ev |-> "finalize", into |-> into, items |-> items]

(* the handler answers, or returns at once, and changes nothing *)
Reply(op, id) ==
  /\ lastOp' = Op(op, id)
  /\ UNCHANGED <<outside, posts, teaser, jobs, tasks, pending, fsm, album_tasks>>

(* the handler changes the wizard context of u only *)
Wizard(op, u, state, data) ==
  /\ lastOp' = Op(op, 0)
  /\ fsm' = SetCtx(u, state, data)
  /\ UNCHANGED <<outside, posts, teaser, jobs, tasks, pending, album_tasks>>

(* a runner: its key, the album its _finalize closed over, and the number
   of updates that were still in flight when it began its sleep *)
Runner(key, album_id) == [key |-> key, album_id |-> album_id, left |-> Len(updates')]

(* mutant: the runner of the previous item is not cancelled *)
ScheduleWithoutCancel(key, album_id) ==
  album_tasks \cup {Runner(key, album_id)}

(* _schedule_album_finalize: the runner of that key is cancelled, a new one
   sleeps and then finalizes the album album_id *)
_schedule_album_finalize(key, album_id) ==
  {r \in album_tasks : r.key # key} \cup {Runner(key, album_id)}

(* set_teaser_content *)
set_teaser_content(text, file_id) == [text |-> text, file_id |-> file_id]

(* admin_teaser *)
admin_teaser(u) ==
  /\ up
  /\ IF ~_is_admin(u) THEN Reply("denied", u)
     ELSE Wizard("admin_teaser", u, "TeaserFSM:content", NoData)

(* the entry of the history, where one is kept, for a saved teaser *)
TeaserSaved ==
  [ev |-> "set_teaser_content", to |-> 0, kind |-> "", post |-> 0, outcome |-> "",
   level |-> "", delivered |-> 0, total |-> 0]

(* admin_teaser_save *)
admin_teaser_save(u, message) ==
  /\ up
  /\ Ctx(u).state = "TeaserFSM:content"
  /\ LET c == _extract_message_content(message)
     IN IF ~_is_admin(u) THEN Reply("denied", u)
        ELSE IF strip(c.text) = <<>> /\ c.file_id = ""
        THEN Reply("admin_teaser_save: empty", 0)
        ELSE /\ teaser' = set_teaser_content(c.text, c.file_id)
             /\ fsm' = SetCtx(u, "", NoData)
             /\ lastOp' = Op("admin_teaser_save", 0)
             /\ trace' = Log(trace, TeaserSaved)
             /\ UNCHANGED <<fixed, posts, jobs, tasks, pending, album_tasks>>

(* admin_create *)
admin_create(u) ==
  /\ up
  /\ IF ~_is_admin(u) THEN Reply("denied", u)
     ELSE Wizard("admin_create", u, "CreatePostFSM:title", NoData)

(* create_title *)
create_title(u, message) ==
  /\ up
  /\ Ctx(u).state = "CreatePostFSM:title"
  /\ IF ~_is_admin(u) THEN Reply("denied", u)
     ELSE IF strip(message.text) = <<>> THEN Reply("create_title: empty", 0)
     ELSE Wizard("create_title", u, "CreatePostFSM:level",
                 [Ctx(u).data EXCEPT !.title = strip(message.text)])

POST_LEVELS == {"starters", "explorers", "achievers", "admins"}

(* create_pick_level: the level is kept and the draft is emptied *)
create_pick_level(u, level) ==
  /\ up
  /\ Ctx(u).state = "CreatePostFSM:level"
  /\ IF ~_is_admin(u) THEN Reply("denied", u)
     ELSE IF level # "all" /\ level \notin POST_LEVELS
     THEN Reply("create_pick_level: unknown level", 0)
     ELSE Wizard("create_pick_level", u, "CreatePostFSM:draft",
                 [Ctx(u).data EXCEPT !.level = level, !.draft_text = <<>>,
                                     !.draft_media_type = "", !.draft_file_id = "",
                                     !.draft_media_group = <<>>,
                                     !.album_id = "", !.album_items = <<>>])

(* create_draft_actions *)
create_draft_actions(u, action) ==
  /\ up
  /\ Ctx(u).state = "CreatePostFSM:draft"
  /\ LET data == Ctx(u).data
         has_media == \/ data.draft_media_group # <<>>
                      \/ data.draft_media_type # "" /\ data.draft_file_id # ""
     IN IF ~_is_admin(u) THEN Reply("denied", u)
        ELSE IF action = "back" THEN Wizard("cdraft:back", u, "", NoData)
        ELSE IF action = "text" THEN Wizard("cdraft:text", u, "CreatePostFSM:edit_text", data)
        ELSE IF action = "media" THEN Wizard("cdraft:media", u, "CreatePostFSM:edit_media", data)
        ELSE IF action = "done"
        THEN IF strip(data.draft_text) = <<>> /\ ~has_media
             THEN Reply("cdraft:done: empty", 0)
             ELSE Wizard("cdraft:done", u, "CreatePostFSM:send_at", data)
        ELSE Reply("cdraft: unknown", 0)

(* create_set_text *)
create_set_text(u, message) ==
  /\ up
  /\ Ctx(u).state = "CreatePostFSM:edit_text"
  /\ IF ~_is_admin(u) THEN Reply("denied", u)
     ELSE IF strip(message.text) = <<>> THEN Reply("create_set_text: empty", 0)
     ELSE Wizard("create_set_text", u, "CreatePostFSM:draft",
                 [Ctx(u).data EXCEPT !.draft_text = strip(message.text)])

(* create_set_media: an item of an album is appended to the items kept in
   the wizard data and the finalize runner is scheduled anew; a single
   media item replaces the draft's media at once *)
create_set_media(u, message) ==
  /\ up
  /\ Ctx(u).state = "CreatePostFSM:edit_media"
  /\ LET data == Ctx(u).data
         c == _extract_message_content(message)
     IN IF ~_is_admin(u) THEN Reply("denied", u)
        ELSE IF IsAlbumItem(message)
        THEN IF data.album_id # "" /\ data.album_id # message.media_group_id
             THEN Reply("create_set_media: another album", 0)
             ELSE /\ fsm' = SetCtx(u, Ctx(u).state,
                                   [data EXCEPT !.album_id = message.media_group_id,
                                                !.album_items = Append(@, AlbumItem(message))])
                  /\ album_tasks' = _schedule_album_finalize(
                                      <<u, "CreatePostFSM.edit_media">>, message.media_group_id)
                  /\ lastOp' = Op("create_set_media: album item", 0)
                  /\ trace' = Log(trace, AlbumArrived(message))
                  /\ UNCHANGED <<fixed, posts, teaser, jobs, tasks, pending>>
        ELSE IF c.media_type = "" \/ c.file_id = ""
        THEN Reply("create_set_media: no media", 0)
        ELSE Wizard("create_set_media", u, "CreatePostFSM:draft",
                    [data EXCEPT !.draft_media_type = c.media_type,
                                 !.draft_file_id = c.file_id,
                                 !.draft_media_group = <<>>,
                                 !.album_id = "", !.album_items = <<>>])

(* the runner of create_set_media after its sleep: _finalize *)
CreateAlbumFinalize(r) ==
  /\ up
  /\ r \in album_tasks
  /\ r.key[2] = "CreatePostFSM.edit_media"
  /\ album_tasks' = album_tasks \ {r}
  /\ LET u == r.key[1]
         d == Ctx(u).data
     IN IF d.album_id # r.album_id \/ d.album_items = <<>>
        THEN /\ lastOp' = Op("_finalize: nothing", 0)
             /\ UNCHANGED <<fsm, trace>>
        ELSE /\ lastOp' = Op("_finalize: draft", 0)
             /\ fsm' = SetCtx(u, "CreatePostFSM:draft",
                              [d EXCEPT !.draft_media_group = d.album_items,
                                        !.draft_media_type = "", !.draft_file_id = "",
                                        !.album_id = "", !.album_items = <<>>])
             /\ trace' = Log(trace, AlbumFinalized("draft", d.album_items))
  /\ UNCHANGED <<fixed, updates, posts, teaser, jobs, tasks, pending>>

(* create_send_at: the date is parsed, the draft is read (data["title"]
   raises when the data has no title, the level is "all" when it has
   none) and checked, then create_post, update_post_content,
   schedule_or_send_now and state.clear *)
create_send_at(u, message) ==
  /\ up
  /\ Ctx(u).state = "CreatePostFSM:send_at"
  /\ LET data == Ctx(u).data
         id == NewId(posts)
         ps == update_post_content(
                 create_post(posts, id, data.title, data.draft_text,
                             parse_moscow_datetime(message.text),
                             IF data.level = "" THEN "all" ELSE data.level),
                 id, data.draft_text, data.draft_media_type, data.draft_file_id,
                 data.draft_media_group)
         r == schedule_or_send_now(ps[id], now, jobs, tasks)
     IN IF ~_is_admin(u) THEN Reply("denied", u)
        ELSE IF ~IsDate(message.text) THEN Reply("create_send_at: no date", 0)
        ELSE IF data.title = <<>> THEN Reply("create_send_at: raised", 0)
        ELSE IF /\ strip(data.draft_text) = <<>>
                /\ data.draft_file_id = ""
                /\ data.draft_media_group = <<>>
        THEN Reply("create_send_at: empty", 0)
        ELSE /\ id <= MaxWizardPosts
             /\ posts' = ps
             /\ jobs' = r.jobs
             /\ tasks' = r.tasks
             /\ fsm' = SetCtx(u, "", NoData)
             /\ lastOp' = Op("create_send_at", id)
             /\ UNCHANGED <<outside, teaser, pending, album_tasks>>

(* post_action: the confirmed delete, or the start of an edit of post p *)
post_action(u, action, p) ==
  /\ up
  /\ IF ~_is_admin(u) THEN Reply("denied", u)
     ELSE IF action = "del_yes"
     THEN /\ jobs' = unschedule_post(jobs, p)
          /\ posts' = delete_post(posts, p)
          /\ lastOp' = Op(IF Stored(p) THEN "del_yes: deleted"
                          ELSE "del_yes: already deleted", p)
          /\ UNCHANGED <<outside, teaser, tasks, pending, fsm, album_tasks>>
     ELSE IF action \in {"title", "level", "content", "text", "time"}
     THEN Wizard("post_action", u,
                 CASE action = "title" -> "EditPostFSM:title"
                   [] action = "level" -> "EditPostFSM:level"
                   [] action = "content" -> "EditPostFSM:content"
                   [] action = "text" -> "EditPostFSM:text"
                   [] action = "time" -> "EditPostFSM:send_at",
                 [NoData EXCEPT !.post_id = p])
     ELSE IF action \in {"del", "del_no"} THEN Reply("post_action: shown", 0)
     ELSE Wizard("post_action: unknown", u, "", [NoData EXCEPT !.post_id = p])

(* edit_pick_level *)
edit_pick_level(u, level) ==
  /\ up
  /\ Ctx(u).state = "EditPostFSM:level"
  /\ IF ~_is_admin(u) THEN Reply("denied", u)
     ELSE IF level # "all" /\ level \notin POST_LEVELS
     THEN Reply("edit_pick_level: unknown level", 0)
     ELSE /\ posts' = update_post_level(posts, Ctx(u).data.post_id, level)
          /\ fsm' = SetCtx(u, "", NoData)
          /\ lastOp' = Op("edit_pick_level", Ctx(u).data.post_id)
          /\ UNCHANGED <<outside, teaser, jobs, tasks, pending, album_tasks>>

(* mutant: an empty title is stored *)
EditTitleAcceptsEmpty(u, message) ==
  /\ up
  /\ Ctx(u).state = "EditPostFSM:title"
  /\ IF ~_is_admin(u) THEN Reply("denied", u)
     ELSE /\ posts' = update_post_text_title(posts, Ctx(u).data.post_id,
                                             strip(message.text), NoText)
          /\ fsm' = SetCtx(u, "", NoData)
          /\ lastOp' = Op("edit_title", Ctx(u).data.post_id)
          /\ UNCHANGED <<outside, teaser, jobs, tasks, pending, album_tasks>>

(* edit_title *)
edit_title(u, message) ==
  /\ up
  /\ Ctx(u).state = "EditPostFSM:title"
  /\ IF ~_is_admin(u) THEN Reply("denied", u)
     ELSE IF strip(message.text) = <<>> THEN Reply("edit_title: empty", 0)
     ELSE /\ posts' = update_post_text_title(posts, Ctx(u).data.post_id,
                                             strip(message.text), NoText)
          /\ fsm' = SetCtx(u, "", NoData)
          /\ lastOp' = Op("edit_title", Ctx(u).data.post_id)
          /\ UNCHANGED <<outside, teaser, jobs, tasks, pending, album_tasks>>

(* edit_text *)
edit_text(u, message) ==
  /\ up
  /\ Ctx(u).state = "EditPostFSM:text"
  /\ IF ~_is_admin(u) THEN Reply("denied", u)
     ELSE IF strip(message.text) = <<>> THEN Reply("edit_text: empty", 0)
     ELSE /\ posts' = update_post_text_title(posts, Ctx(u).data.post_id,
                                             NoTitle, message.text)
          /\ fsm' = SetCtx(u, "", NoData)
          /\ lastOp' = Op("edit_text", Ctx(u).data.post_id)
          /\ UNCHANGED <<outside, teaser, jobs, tasks, pending, album_tasks>>

(* edit_content: an item of an album is appended to the items kept in the
   wizard data, with the first caption as text; after the first item the
   handler answers, and only when that send is over it schedules the
   finalize runner, which the handler of a later item does at once; a
   single message replaces the content of the post at once *)
edit_content(u, message) ==
  /\ up
  /\ Ctx(u).state = "EditPostFSM:content"
  /\ LET data == Ctx(u).data
         c == _extract_message_content(message)
         captioned == IF strip(message.text) # <<>> /\ strip(data.text) = <<>>
                      THEN [data EXCEPT !.text = message.text] ELSE data
         items == Append(data.album_items, AlbumItem(message))
     IN IF ~_is_admin(u) THEN Reply("denied", u)
        ELSE IF IsAlbumItem(message)
        THEN IF data.album_id # "" /\ data.album_id # message.media_group_id
             THEN Reply("edit_content: another album", 0)
             ELSE /\ fsm' = SetCtx(u, Ctx(u).state,
                                   [captioned EXCEPT !.album_id = message.media_group_id,
                                                     !.album_items = items])
                  /\ IF Len(items) = 1
                     THEN /\ pending' = pending \cup
                                          {[key |-> <<u, "EditPostFSM.content">>,
                                            album_id |-> message.media_group_id]}
                          /\ UNCHANGED album_tasks
                     ELSE /\ album_tasks' = _schedule_album_finalize(
                                              <<u, "EditPostFSM.content">>,
                                              message.media_group_id)
                          /\ UNCHANGED pending
                  /\ lastOp' = Op("edit_content: album item", data.post_id)
                  /\ trace' = Log(trace, AlbumArrived(message))
                  /\ UNCHANGED <<fixed, posts, teaser, jobs, tasks>>
        ELSE IF strip(c.text) = <<>> /\ c.file_id = ""
        THEN Reply("edit_content: empty", 0)
        ELSE /\ posts' = update_post_content(posts, data.post_id, c.text,
                                             c.media_type, c.file_id, <<>>)
             /\ fsm' = SetCtx(u, "", NoData)
             /\ lastOp' = Op("edit_content", data.post_id)
             /\ UNCHANGED <<outside, teaser, jobs, tasks, pending, album_tasks>>

(* edit_content after its answer to the first item of an album *)
EditContentAnswered(h) ==
  /\ up
  /\ h \in pending
  /\ pending' = pending \ {h}
  /\ UNCHANGED updates
  /\ album_tasks' = _schedule_album_finalize(h.key, h.album_id)
  /\ lastOp' = Op("edit_content: answered", 0)
  /\ UNCHANGED <<outside, posts, teaser, jobs, tasks, fsm>>

(* the runner of edit_content after its sleep: _finalize, which returns
   when the album is another one or is empty and raises when the data has
   no post_id *)
EditAlbumFinalize(r) ==
  /\ up
  /\ r \in album_tasks
  /\ r.key[2] = "EditPostFSM.content"
  /\ album_tasks' = album_tasks \ {r}
  /\ LET u == r.key[1]
         d == Ctx(u).data
     IN IF d.album_id # r.album_id \/ d.post_id = 0 \/ d.album_items = <<>>
        THEN /\ lastOp' = Op("_finalize: nothing", 0)
             /\ UNCHANGED <<posts, fsm, trace>>
        ELSE /\ lastOp' = Op("_finalize: post", d.post_id)
             /\ posts' = update_post_content(posts, d.post_id, d.text, "", "",
                                             d.album_items)
             /\ fsm' = SetCtx(u, "", NoData)
             /\ trace' = Log(trace, AlbumFinalized("post", d.album_items))
  /\ UNCHANGED <<fixed, updates, teaser, jobs, tasks, pending>>

(* edit_send_at *)
edit_send_at(u, message) ==
  /\ up
  /\ Ctx(u).state = "EditPostFSM:send_at"
  /\ LET p == Ctx(u).data.post_id
         ps == update_post_send_time(posts, p, parse_moscow_datetime(message.text))
     IN IF ~_is_admin(u) THEN Reply("denied", u)
        ELSE IF ~IsDate(message.text) THEN Reply("edit_send_at: no date", 0)
        ELSE /\ posts' = ps
             /\ fsm' = SetCtx(u, "", NoData)
             /\ IF Stored(p)
                THEN LET r == schedule_or_send_now(ps[p], now, jobs, tasks)
                     IN jobs' = r.jobs /\ tasks' = r.tasks
                ELSE UNCHANGED <<jobs, tasks>>
             /\ lastOp' = Op("edit_send_at", p)
             /\ UNCHANGED <<outside, teaser, pending, album_tasks>>

(* the updates the wizard is tried with: a blank text, and a text that is
   a title, a body and a date; a photo, a sticker, and an item of the
   album "g" *)
WizardMessages ==
  {Message(<<" ">>, "", "", ""), Message(<<"3">>, "", "", ""),
   Message(<<>>, "photo", "f1", ""), Message(<<>>, "sticker", "s1", ""),
   Message(<<>>, "video", "f2", "g")}
TeaserMessages == {Message(<<" ">>, "", "", ""), Message(<<"3">>, "", "", "")}
WizardLevels == {"starters", "bogus"}
DraftActions == {"back", "text", "media", "done", "noop"}
PostActions == {"del_yes", "title", "level", "content", "text", "time", "noop"}

(* the albums of the wizard are kept short *)
AlbumRoom(u, message) ==
  IsAlbumItem(message) => Len(Ctx(u).data.album_items) < MaxWizardAlbum

(* an update of sender u, handled by the handler whose filters match *)
Update(u) ==
  \/ admin_teaser(u)
  \/ admin_create(u)
  \/ \E a \in PostActions, p \in PostIds : post_action(u, a, p)
  \/ \E l \in WizardLevels : create_pick_level(u, l) \/ edit_pick_level(u, l)
  \/ \E a \in DraftActions : create_draft_actions(u, a)
  \/ \E message \in TeaserMessages : admin_teaser_save(u, message)
  \/ \E message \in WizardMessages :
       /\ AlbumRoom(u, message)
       /\ \/ create_title(u, message)
          \/ create_set_text(u, message)
          \/ create_set_media(u, message)
          \/ create_send_at(u, message)
          \/ edit_title(u, message)
          \/ edit_text(u, message)
          \/ edit_content(u, message)
          \/ edit_send_at(u, message)

(* the authoring wizard of the started process, with updates of every
   sender in every order, the answers and the album runners *)
WizardInit ==
  /\ now = 0
  /\ up = TRUE
  /\ posts = <<>>
  /\ users = InitUsers
  /\ admin_ids = AdminIds
  /\ teaser = NoTeaser
  /\ trace = NoTrace
  /\ content = NoContent
  /\ calls = <<>>
  /\ seed = NoSeed
  /\ fsm = NoState
  /\ album_tasks = {}
  /\ updates = <<>>
  /\ jobs = {}
  /\ tasks = EmptyBag
  /\ pending = {}
  /\ ops = 0
  /\ crashes = 0
  /\ lastOp = Op("init", 0)

WizardNext ==
  \/ \E u \in Senders : UNCHANGED updates /\ Update(u)
  \/ \E h \in pending : EditContentAnswered(h)
  \/ \E r \in album_tasks : CreateAlbumFinalize(r)
  \/ \E r \in album_tasks : EditAlbumFinalize(r)

WizardSpec == WizardInit /\ [][WizardNext]_vars

(* one delivery run of a due post for two users and the administrator, with
   every outcome of a send, while the administrator opens the teaser state
   and saves a teaser, up to MaxOps times; the history of sends and saves
   is kept *)
TeaserInit ==
  /\ now = 0
  /\ up = TRUE
  /\ posts = create_post(<<>>, 1, <<"t">>, <<"a">>, 0, "all")
  /\ users = (1 :> "starters") @@ (2 :> NoLevel)
  /\ admin_ids = AdminIds
  /\ teaser \in TeaserChoices
  /\ trace = <<>>
  /\ content = NoContent
  /\ seed = NoSeed
  /\ fsm = NoState
  /\ album_tasks = {}
  /\ updates = <<>>
  /\ calls = <<>>
  /\ jobs = {}
  /\ tasks = SetToBag({NewTask(1, "now", Armed(posts[1]))})
  /\ pending = {}
  /\ ops = 0
  /\ crashes = 0
  /\ lastOp = Op("init", 0)

TeaserSaves == Len(SelectSeq(trace, LAMBDA e : e.ev = "set_teaser_content"))

TeaserNext ==
  \/ \E t \in BagToSet(tasks) : SendPostStart(t)
  \/ \E t \in BagToSet(tasks), o \in Outcomes : SendPostDeliver(t, o)
  \/ \E t \in BagToSet(tasks) : SendPostFinish(t)
  \/ \E t \in BagToSet(tasks), o \in Outcomes : NotifyAdmins(t, o)
  \/ \E u \in Senders : UNCHANGED updates /\ admin_teaser(u)
  \/ \E u \in Senders, message \in TeaserMessages :
       /\ TeaserSaves < MaxOps
       /\ UNCHANGED updates
       /\ admin_teaser_save(u, message)

TeaserSpec == TeaserInit /\ [][TeaserNext]_vars

(* the messages of one media group "g": a photo without caption, a video
   and a photo with captions *)
AlbumPool ==
  {Message(<<>>, "photo", "f1", "g"), Message(<<"b">>, "video", "f2", "g"),
   Message(<<"c">>, "photo", "f3", "g")}
Albums == UNION {[1..n -> AlbumPool] : n \in 1..MaxAlbumItems}

(* the wizard of the administrator in the media state of a new post, or in
   the content state of the stored post 1 *)
AlbumContexts ==
  {[state |-> "CreatePostFSM:edit_media",
    data |-> [NoData EXCEPT !.title = <<"t">>, !.level = "all"]],
   [state |-> "EditPostFSM:content", data |-> [NoData EXCEPT !.post_id = 1]]}

(* the messages of one media group arrive while the administrator is in
   the media state or in the content state, each within the debounce delay
   of the previous one; the history of arrivals and finalizes is kept *)
AlbumInit ==
  /\ now = 0
  /\ up = TRUE
  /\ posts = create_post(<<>>, 1, <<"t">>, <<"a">>, MaxTime, "all")
  /\ users = InitUsers
  /\ admin_ids = AdminIds
  /\ teaser = NoTeaser
  /\ trace = <<>>
  /\ content = NoContent
  /\ seed = NoSeed
  /\ \E c \in AlbumContexts : fsm = [NoState EXCEPT ![3] = c]
  /\ album_tasks = {}
  /\ updates \in Albums
  /\ calls = <<>>
  /\ jobs = schedule_or_send_now(posts[1], now, {}, EmptyBag).jobs
  /\ tasks = EmptyBag
  /\ pending = {}
  /\ ops = 0
  /\ crashes = 0
  /\ lastOp = Op("init", 0)

(* the sleep of runner r can be over: the update that followed its
   scheduling within the debounce delay has arrived, or there was none *)
Debounced(r) == updates = <<>> \/ Len(updates) < r.left

AlbumNext ==
  \/ /\ updates # <<>>
     /\ updates' = Tail(updates)
     /\ create_set_media(3, Head(updates)) \/ edit_content(3, Head(updates))
  \/ \E h \in pending : EditContentAnswered(h)
  \/ \E r \in album_tasks : Debounced(r) /\ CreateAlbumFinalize(r)
  \/ \E r \in album_tasks : Debounced(r) /\ EditAlbumFinalize(r)

AlbumSpec == AlbumInit /\ [][AlbumNext]_vars

(* ------------------------------ claims -------------------------------- *)
JobsOfIn(js, p) == {j \in js : j.id = _job_id(p)}

JobsOf(p) == JobsOfIn(jobs, p)

TasksOfIn(ts, p) == {t \in BagToSet(ts) : t.id = p}

TasksOf(p) == TasksOfIn(tasks, p)

RECURSIVE Copies(_, _)
Copies(ts, S) ==
  IF S = {} THEN 0
  ELSE LET x == CHOOSE y \in S : TRUE
       IN CopiesIn(x, ts) + Copies(ts, S \ {x})

(* runs of post p that are dispatched and have not started *)
Dispatched(ts, p) == Copies(ts, {t \in TasksOfIn(ts, p) : t.pc = "start"})

(* runs of post p that are past their sent check *)
Active(ts, p) == Copies(ts, {t \in TasksOfIn(ts, p) : t.pc # "start"})

TimerFor(obj) == [id |-> _job_id(obj.id), run_date |-> obj.send_at, armed |-> Armed(obj)]

(* C1: a run that starts when the stored post is sent ends at once: the
   store, the timers and every other run are as before and the run is gone,
   so it sends nothing and no summary; and while a post is sent no step
   puts a further run of it past the sent check. *)
C1_SentPostIsNotDeliveredAgain ==
  [][/\ \A t \in BagToSet(tasks) :
          (SendPostStart(t) /\ Stored(t.id) /\ posts[t.id].sent)
            => /\ posts' = posts
               /\ jobs' = jobs
               /\ tasks' = Remove(tasks, t)
     /\ \A p \in PostIds :
          (Stored(p) /\ posts[p].sent) => Active(tasks', p) <= Active(tasks, p)]_vars

C1_Witness ==
  \E p \in PostIds :
    /\ lastOp = Op("_send_post: sent", p)
    /\ Stored(p) /\ posts[p].sent

(* C2: in every reachable state the scheduler holds at most one timer for
   each post id, also after a timer is armed again for a post. *)
C2_AtMostOneTimerPerPost ==
  \A p \in PostIds : Cardinality(JobsOf(p)) <= 1

C2_Witness ==
  \E p \in PostIds :
    /\ lastOp = Op("edit_send_at", p)
    /\ Stored(p) /\ posts[p].send_at > now
    /\ JobsOf(p) = {TimerFor(posts[p])}

(* C3: right after setup_scheduler every unsent post that is due has
   exactly one dispatched run and no timer, every unsent post of the
   future has exactly one timer, at its send_at, and no run, and a sent
   post, like an id that is not stored, has neither. *)
C3_StartupReconciliation ==
  lastOp.op = "setup_scheduler" =>
    \A p \in PostIds :
      IF Stored(p) /\ ~posts[p].sent
      THEN IF posts[p].send_at <= now
           THEN /\ Dispatched(tasks, p) = 1
                /\ Active(tasks, p) = 0
                /\ JobsOf(p) = {}
           ELSE /\ JobsOf(p) = {TimerFor(posts[p])}
                /\ TasksOf(p) = {}
      ELSE JobsOf(p) = {} /\ TasksOf(p) = {}

C3_Witness ==
  /\ lastOp.op = "setup_scheduler"
  /\ \E p, q \in PostIds :
       /\ Stored(p) /\ ~posts[p].sent /\ posts[p].send_at <= now
       /\ Dispatched(tasks, p) = 1
       /\ Stored(q) /\ ~posts[q].sent /\ posts[q].send_at > now
       /\ JobsOf(q) # {}

(* C4: under FairSpec every post that is stored and unsent, in particular
   after a crash has dropped every timer and run, is eventually marked
   sent by a run, unless it is deleted. *)
C4_UnsentPostIsEventuallySent ==
  \A p \in PostIds :
    (Stored(p) /\ ~posts[p].sent) ~> (~Stored(p) \/ posts[p].sent)

C4_Witness ==
  \E p \in PostIds :
    /\ crashes > 0
    /\ up
    /\ lastOp = Op("loop end", p)
    /\ Stored(p) /\ posts[p].sent

(* C5: once edit_send_at has moved a post to a future time exactly one
   timer exists for it, and the run that delivers the post and marks it
   sent starts at or after the new send_at: a post whose timer for the new
   time is still armed is not marked sent before that time. *)
C5_Original ==
  /\ \A p \in PostIds :
       (lastOp = Op("edit_send_at", p) /\ Stored(p) /\ posts[p].send_at > now)
         => Cardinality(JobsOf(p)) = 1
  /\ \A p \in PostIds :
       (Stored(p) /\ posts[p].sent /\ JobsOf(p) = {TimerFor(posts[p])})
         => posts[p].sent_at >= posts[p].send_at

(* C6: a run started by a timer does not pass its checks and begin to send
   to its recipients while the post's stored send_at is in the future. *)
C6_Original ==
  \A p \in PostIds :
    (/\ lastOp = Op("_send_post by timer", p)
     /\ \E t \in TasksOf(p) :
          t.via = "timer" /\ t.pc = "loop" /\ t.idx = 1 /\ Len(t.chat_ids) > 0)
      => posts[p].send_at <= now

(* C7: schedule_or_send_now with a sent post changes no timer, no run and
   nothing in the store, whatever the post's send_at. *)
C7_ScheduleSentPostIsNoOp ==
  [][\A p \in PostIds :
       (ApiScheduleOrSendNow(p) /\ posts[p].sent)
         => UNCHANGED <<jobs, tasks, posts, pending>>]_vars

C7_Witness ==
  \E p \in PostIds :
    /\ lastOp = Op("schedule_or_send_now", p)
    /\ Stored(p) /\ posts[p].sent

(* C8: schedule_or_send_now with an unsent post obj: when obj.send_at <= now
   it adds exactly one dispatched run of the post and leaves no timer of
   the post; otherwise it adds no run and leaves the post's timer, at
   obj.send_at; the timers of other posts are as before. *)
ScheduleEffect(obj) ==
  ~obj.sent =>
    /\ \A q \in PostIds \ {obj.id} : JobsOfIn(jobs', q) = JobsOfIn(jobs, q)
    /\ IF obj.send_at <= now
       THEN /\ tasks' = tasks (+) SetToBag({NewTask(obj.id, "now", Armed(obj))})
            /\ JobsOfIn(jobs', obj.id) = {}
       ELSE /\ tasks' = tasks
            /\ JobsOfIn(jobs', obj.id) = {TimerFor(obj)}

C8_SendNowOrArm ==
  [][/\ \A p \in PostIds : ApiScheduleOrSendNow(p) => ScheduleEffect(posts[p])
     /\ \A p \in PostIds, s \in Time :
          (EditSendAt(p, s) /\ Stored(p)) => ScheduleEffect(posts'[p])
     /\ \A s \in Time :
          CreateSendAt(s, "all", <<"a">>) => ScheduleEffect(posts'[NextPostId])]_vars

C8_Witness ==
  \E p \in PostIds :
    /\ lastOp = Op("edit_send_at", p)
    /\ Stored(p) /\ ~posts[p].sent /\ posts[p].send_at <= now
    /\ Dispatched(tasks, p) = 1
    /\ JobsOf(p) = {}

(* C9: when a run started by a timer has passed its checks, its level, its
   text and its recipients are those of the stored post at that moment. *)
C9_TimerRunReadsStore ==
  \A p \in PostIds :
    lastOp = Op("_send_post by timer", p) =>
      \E t \in TasksOf(p) :
        /\ t.via = "timer" /\ t.pc = "loop" /\ t.idx = 1
        /\ t.level = posts[p].level
        /\ t.text = posts[p].text
        /\ t.chat_ids = ChatIds(users, posts[p].level)

C9_Witness ==
  \E p \in PostIds :
    /\ lastOp = Op("_send_post by timer", p)
    /\ \E t \in TasksOf(p) :
         /\ t.via = "timer" /\ t.pc = "loop" /\ t.idx = 1
         /\ t.armed.level # posts[p].level
         /\ t.level = posts[p].level
         /\ t.chat_ids = ChatIds(users, posts[p].level)
         /\ t.chat_ids # ChatIds(users, t.armed.level)

(* C10: unschedule_post leaves no timer of the post and changes nothing
   else, and nothing at all when the post has no timer; and a post with no
   timer and no run gets neither, so is never delivered, by any step that
   is not a scheduling call for it. *)
SchedulingCall(p) ==
  \/ lastOp'.op = "setup_scheduler"
  \/ /\ lastOp'.op \in {"create_send_at", "edit_send_at", "schedule_or_send_now"}
     /\ lastOp'.id = p

C10_UnscheduleRoundTrip ==
  [][\A p \in PostIds :
       /\ ApiUnschedulePost(p)
            => /\ JobsOfIn(jobs', p) = {}
               /\ jobs' = jobs \ JobsOf(p)
               /\ UNCHANGED <<tasks, posts, pending>>
       /\ (JobsOf(p) = {} /\ TasksOf(p) = {} /\ ~SchedulingCall(p))
            => (JobsOfIn(jobs', p) = {} /\ TasksOfIn(tasks', p) = {})]_vars

C10_Witness ==
  \E p \in PostIds :
    /\ lastOp = Op("unschedule_post: removed", p)
    /\ Stored(p) /\ ~posts[p].sent /\ posts[p].send_at > now
    /\ JobsOf(p) = {} /\ TasksOf(p) = {}

(* C11: lateness alone never discards a timer: no step of the scheduler
   drops a due timer of a post without starting its delivery run. *)
C11_Original ==
  \A p \in PostIds : lastOp # Op("misfire", p)

(* ----------------------- recipient resolver -------------------------- *)
Range(s) == {s[i] : i \in DOMAIN s}

NoDuplicates(s) == \A i, j \in DOMAIN s : i # j => s[i] # s[j]

(* the runs that have resolved their recipients *)
ResolvedRuns == {t \in BagToSet(tasks) : t.pc # "start"}

(* the recipients of the sends made so far, in order *)
Sends == SelectSeq(trace, LAMBDA e : e.ev = "send")

SentTo == [i \in 1..Len(Sends) |-> Sends[i].to]

Marked == \E i \in DOMAIN trace : trace[i].ev = "mark_sent"

(* C12: for a post of level "all" the recipients of a run contain every
   registered user, with or without a level, and every administrator,
   and no id twice. *)
C12_AllReachesEveryUserAndAdmin ==
  \A t \in ResolvedRuns :
    t.level = "all" =>
      /\ DOMAIN users \subseteq Range(t.chat_ids)
      /\ Range(admin_ids) \subseteq Range(t.chat_ids)
      /\ NoDuplicates(t.chat_ids)

C12_Witness ==
  \E t \in ResolvedRuns :
    /\ t.level = "all"
    /\ \E u \in DOMAIN users : users[u] = NoLevel /\ u \in Range(t.chat_ids)
    /\ \E a \in Range(admin_ids) : a \in DOMAIN users
    /\ \E a \in Range(admin_ids) : a \notin DOMAIN users /\ a \in Range(t.chat_ids)
    /\ NoDuplicates(t.chat_ids)

(* C13: for a post of level "admins" the recipients of a run are exactly
   the administrator ids, and every send of the run goes to one of them. *)
C13_AdminsOnly ==
  /\ \A t \in ResolvedRuns : t.level = "admins" => t.chat_ids = admin_ids
  /\ posts[1].level = "admins" => Range(SentTo) \subseteq Range(admin_ids)

C13_Witness ==
  /\ posts[1].level = "admins"
  /\ \E u \in DOMAIN users : users[u] # NoLevel /\ u \notin Range(admin_ids)
  /\ Marked
  /\ SentTo = admin_ids
  /\ Len(admin_ids) = 2

(* C14: for a post of any other level the recipients of a run are the
   users of exactly that level and the administrators; with no user of
   that level they are the administrators alone, and the run goes on. *)
C14_CohortAndAdmins ==
  \A t \in ResolvedRuns :
    t.level \notin {"all", "admins"} =>
      LET cohort == {u \in DOMAIN users : users[u] = t.level}
      IN /\ Range(t.chat_ids) = cohort \cup Range(admin_ids)
         /\ cohort = {} => t.chat_ids = admin_ids
         /\ t.pc \in {"loop", "notify", "notify_retry"}

C14_Witness ==
  \E t \in ResolvedRuns :
    /\ t.level = "legacy_tier"
    /\ t.pc = "loop"
    /\ \E u \in DOMAIN users : users[u] = NoLevel
    /\ \E u \in DOMAIN users : users[u] = "starters"
    /\ t.chat_ids = admin_ids
    /\ admin_ids # <<>>

(* C15: the recipient list is the matching users in their order followed
   by the administrators not among them, in their order; total is its
   length; the run sends along this list, once to each id of it. *)
ExpectedChatIds(level) ==
  LET cohort == IF level = "admins" THEN <<>>
                ELSE IF level = "all" THEN SortedSeq(DOMAIN users)
                ELSE SortedSeq({u \in DOMAIN users : users[u] = level})
  IN cohort \o SelectSeq(admin_ids, LAMBDA a : a \notin Range(cohort))

C15_DeduplicatedInOrder ==
  LET expected == ExpectedChatIds(posts[1].level)
  IN /\ \A t \in ResolvedRuns :
          /\ t.chat_ids = expected
          /\ t.total_count = Len(expected)
     /\ Len(SentTo) <= Len(expected)
     /\ SentTo = SubSeq(expected, 1, Len(SentTo))
     /\ Marked => SentTo = expected

C15_Witness ==
  /\ Marked
  /\ posts[1].level = "starters"
  /\ \E a \in Range(admin_ids) : a \in DOMAIN users /\ users[a] = "starters"
  /\ \E a \in Range(admin_ids) : a \notin DOMAIN users
  /\ \E u \in DOMAIN users : users[u] = "starters" /\ u \notin Range(admin_ids)
  /\ Len(SentTo) = 3
  /\ NoDuplicates(SentTo)

(* ----------------------- claims: delivery run ------------------------- *)
(* the entries of the history that record the mark, and the summaries *)
Marks == {i \in DOMAIN trace : trace[i].ev = "mark_sent"}

Summaries == {i \in DOMAIN trace : trace[i].ev = "summary"}

(* the number of sends so far that ended without an error *)
Delivered == Cardinality({i \in DOMAIN Sends : Sends[i].outcome = "ok"})

(* C16: when the teaser's text has a character that is not white space,
   or the teaser has a media file id, every send of a run is the teaser
   with the Open button of the post and none is the post body; otherwise
   every send is the post body and none a teaser; in both cases every
   recipient has had its send once the loop is over. *)
C16_TeaserInsteadOfPost ==
  LET configured == \/ \E i \in DOMAIN teaser.text : teaser.text[i] # " "
                    \/ teaser.file_id # ""
  IN /\ \A i \in DOMAIN Sends :
          IF configured
          THEN Sends[i].kind = "teaser" /\ Sends[i].post = 1
          ELSE Sends[i].kind = "post" /\ Sends[i].post = 0
     /\ Marked => Len(Sends) = Len(ExpectedChatIds(posts[1].level))

C16_Witness ==
  /\ Marked
  /\ teaser.text = <<" ", "h">>
  /\ Len(Sends) = 3
  /\ \A i \in DOMAIN Sends : Sends[i].kind = "teaser" /\ Sends[i].post = 1

(* C17: whatever the outcomes of the sends, a run in its loop has sent to
   every recipient before the current one, and once the loop is over it
   has sent to every recipient of the list. *)
C17_EveryRecipientAttempted ==
  /\ \A t \in ResolvedRuns :
       t.pc = "loop" => SentTo = SubSeq(t.chat_ids, 1, t.idx - 1)
  /\ \A t \in ResolvedRuns :
       t.pc \in {"notify", "notify_retry"} => SentTo = t.chat_ids
  /\ Marked => Range(SentTo) = DOMAIN users \cup Range(admin_ids)

C17_Witness ==
  /\ Marked
  /\ Len(Sends) = 3
  /\ Sends[1].outcome = "error"
  /\ Sends[2].outcome = "retry_after"
  /\ Sends[3].outcome = "forbidden"

(* C18 (as stated): a send that ended with the rate-limit signal is
   followed by a send to the same recipient, before the run goes on to
   the next recipient or to the end of its loop. *)
C18_Original ==
  \A i \in DOMAIN Sends :
    Sends[i].outcome = "retry_after" =>
      /\ i < Len(Sends) => Sends[i + 1].to = Sends[i].to
      /\ i = Len(Sends) => ~Marked

(* C19: the run's count of delivered sends, and the one its summary
   reports, is the number of sends that ended without an error (so a
   recipient that cannot be reached is not counted); it lies between 0
   and total, the length of the recipient list. *)
C19_DeliveredCountsSuccesses ==
  /\ \A t \in ResolvedRuns :
       /\ t.sent_count = Delivered
       /\ 0 <= t.sent_count /\ t.sent_count <= t.total_count
       /\ t.total_count = Len(ExpectedChatIds(posts[1].level))
  /\ \A i \in Marks \cup Summaries :
       /\ trace[i].delivered = Delivered
       /\ trace[i].total = Len(ExpectedChatIds(posts[1].level))
       /\ 0 <= trace[i].delivered /\ trace[i].delivered <= trace[i].total

C19_Witness ==
  /\ \E i \in Summaries : trace[i].delivered = 1 /\ trace[i].total = 3
  /\ \E i \in DOMAIN Sends : Sends[i].outcome = "forbidden"
  /\ \E i \in DOMAIN Sends : Sends[i].outcome = "ok"

(* C20: the run marks the post once: the stored flag is false while the
   run is in its loop, the mark comes after the send to the last
   recipient and before every summary, and a run that is over has marked
   the post, whatever the outcomes of its sends. *)
C20_MarkedOnceAfterLoop ==
  /\ Cardinality(Marks) <= 1
  /\ posts[1].sent <=> Marks # {}
  /\ \A t \in BagToSet(tasks) : t.pc \in {"start", "loop"} => ~posts[1].sent
  /\ \A m \in Marks :
       /\ m = Len(ExpectedChatIds(posts[1].level)) + 1
       /\ \A i \in 1..(m - 1) : trace[i].ev = "send"
       /\ \A i \in Summaries : i > m
  /\ Summaries # {} => Marks # {}
  /\ tasks = EmptyBag => Marks # {}

C20_Witness ==
  /\ tasks = EmptyBag
  /\ posts[1].sent
  /\ Len(Sends) = 3
  /\ Delivered = 0
  /\ \E i \in Summaries : trace[i].delivered = 0 /\ trace[i].outcome = "ok"

(* ------------------------- claims: the store -------------------------- *)
(* C21 (as stated): mark_post_sent on a post that is already sent leaves
   the stored post as it was: sent stays true and sent_at keeps its
   value. *)
C21_Original ==
  [][\A p \in PostIds :
       (lastOp' = Op("mark_post_sent", p) /\ Stored(p) /\ posts[p].sent)
         => posts'[p] = posts[p]]_vars

(* C30: after any sequence of calls of the store's functions every post
   with sent = TRUE has a sent_at, and the post update_post_send_time has
   just returned has sent = FALSE and no sent_at. *)
C30_SentHasSentAt ==
  /\ \A p \in DOMAIN posts : posts[p].sent => posts[p].sent_at # NULL
  /\ \A p \in DOMAIN posts :
       lastOp = Op("update_post_send_time", p) =>
         ~posts[p].sent /\ posts[p].sent_at = NULL

C30_Witness ==
  /\ lastOp = Op("update_post_send_time", 1)
  /\ Stored(1) /\ ~posts[1].sent /\ posts[1].sent_at = NULL
  /\ Stored(2) /\ posts[2].sent /\ posts[2].sent_at = 2
  /\ now = 3

(* ---------------------- claims: admin summary ------------------------- *)
(* the summaries sent so far, in order *)
SummarySeq == SelectSeq(trace, LAMBDA e : e.ev = "summary")

(* the place of an administrator in the configured list *)
AdminIndex(a) == CHOOSE i \in DOMAIN admin_ids : admin_ids[i] = a

(* C22: every summary carries the id and the level of the run's post and
   the run's delivered and total counts; when no summary failed, the
   summaries go to the administrators in their order, one to each, and a
   run that is over has sent one to every administrator. *)
C22_OneSummaryPerAdmin ==
  /\ \A i \in DOMAIN SummarySeq :
       /\ SummarySeq[i].post = 1
       /\ SummarySeq[i].level = posts[1].level
       /\ SummarySeq[i].delivered = Delivered
       /\ SummarySeq[i].total = Len(Sends)
  /\ (\A i \in DOMAIN SummarySeq : SummarySeq[i].outcome = "ok") =>
       /\ Len(SummarySeq) <= Len(admin_ids)
       /\ \A i \in DOMAIN SummarySeq : SummarySeq[i].to = admin_ids[i]
       /\ tasks = EmptyBag => Len(SummarySeq) = Len(admin_ids)

C22_Witness ==
  /\ tasks = EmptyBag
  /\ admin_ids = <<3, 1>>
  /\ Len(SummarySeq) = 2
  /\ \A i \in DOMAIN SummarySeq :
       SummarySeq[i].outcome = "ok" /\ SummarySeq[i].delivered = 2
                                   /\ SummarySeq[i].total = 3

(* C23: whatever the outcomes of the notifications, the administrators
   are notified in their order, each at most twice, a second time exactly
   after a first attempt that ended with the rate-limit signal, and a run
   that is over has tried every administrator. *)
C23_AdminFailuresIsolated ==
  /\ \A a \in Range(admin_ids) :
       Cardinality({i \in DOMAIN SummarySeq : SummarySeq[i].to = a}) <= 2
  /\ \A i, j \in DOMAIN SummarySeq :
       i < j => AdminIndex(SummarySeq[i].to) <= AdminIndex(SummarySeq[j].to)
  /\ \A i \in DOMAIN SummarySeq :
       LET first == i = 1 \/ SummarySeq[i - 1].to # SummarySeq[i].to
           again == i < Len(SummarySeq) /\ SummarySeq[i + 1].to = SummarySeq[i].to
       IN /\ again => first /\ SummarySeq[i].outcome = "retry_after"
          /\ (first /\ SummarySeq[i].outcome = "retry_after") =>
               \/ again
               \/ i = Len(SummarySeq) /\ tasks # EmptyBag
  /\ tasks = EmptyBag =>
       \A a \in Range(admin_ids) : \E i \in DOMAIN SummarySeq : SummarySeq[i].to = a

C23_Witness ==
  /\ tasks = EmptyBag
  /\ admin_ids = <<3, 1>>
  /\ Len(SummarySeq) = 3
  /\ SummarySeq[1].to = 3 /\ SummarySeq[1].outcome = "retry_after"
  /\ SummarySeq[2].to = 3 /\ SummarySeq[2].outcome = "forbidden"
  /\ SummarySeq[3].to = 1 /\ SummarySeq[3].outcome = "ok"

(* ------------------- claims: a run without its post ------------------- *)
(* C24: a run that starts when its post is not in the store ends at once:
   it changes neither the store nor the timers, it sends nothing and it
   notifies nobody; no run of a post that is not stored gets past its
   checks. *)
C24_MissingPostRunIsSilent ==
  [][/\ \A t \in BagToSet(tasks) :
          (SendPostStart(t) /\ ~Stored(t.id))
            => /\ posts' = posts
               /\ jobs' = jobs
               /\ trace' = trace
               /\ tasks' = Remove(tasks, t)
     /\ \A p \in PostIds :
          ~Stored(p) => Active(tasks', p) <= Active(tasks, p)]_vars

C24_Witness ==
  \E p \in PostIds :
    /\ lastOp = Op("_send_post: not found", p)
    /\ ~Stored(p)
    /\ TasksOf(p) = {}
    /\ JobsOf(p) = {}

(* --------------------- claims: failing store -------------------------- *)
Aborted(tr) == tr # <<>> /\ tr[Len(tr)].ev = "abort"

(* C25: a run aborted by a failure of the store leaves the post unsent and
   sends no summary; it is aborted before its first send or after its
   last recipient only, never by the outcome of a send; the next
   setup_scheduler dispatches the unsent post when it is due and arms its
   timer when it is not. *)
C25_StoreFailureAbortsRun ==
  [][/\ (Len(trace') > Len(trace) /\ Aborted(trace')) =>
          /\ posts' = posts
          /\ ~posts'[1].sent
          /\ tasks' = EmptyBag
          /\ \A t \in BagToSet(tasks) :
               t.pc = "start" \/ (t.pc = "loop" /\ t.idx >= Len(t.chat_ids))
     /\ (Aborted(trace) /\ Len(trace') > Len(trace)) =>
          trace'[Len(trace')].ev \in {"send", "abort"}
     /\ lastOp' = Op("setup_scheduler", 0) =>
          \A p \in DOMAIN posts' :
            ~posts'[p].sent =>
              IF posts'[p].send_at <= now
              THEN Dispatched(tasks', p) = 1 /\ JobsOfIn(jobs', p) = {}
              ELSE Dispatched(tasks', p) = 0
                   /\ JobsOfIn(jobs', p) = {TimerFor(posts'[p])}]_vars

C25_Witness ==
  /\ crashes = 1
  /\ posts[1].sent
  /\ \E i, j \in DOMAIN trace :
       /\ i < j
       /\ trace[i].ev = "abort" /\ trace[i].delivered = 1
       /\ trace[j].ev = "mark_sent"
  /\ trace[Len(trace)].ev = "summary"

(* ------------------------ claims: rendering --------------------------- *)
(* the calls that send something to the recipient *)
RecipientSends ==
  SelectSeq(calls, LAMBDA c : c.method \notin {"answer_callback_query",
                                               "edit_message_reply_markup"})

(* C26: for a post with an album the delivery to a recipient makes one
   grouped call with all album items; a text of at most 1024 characters is
   the caption of the first item, no other item has a caption and nothing
   follows; with a text of more than 1024 characters no item has a caption
   and one text message with the whole text follows. *)
C26_AlbumCaptionBoundary ==
  (lastOp.op = "_deliver_post_to_user" /\ content.media_items # <<>>) =>
    LET text == content.text
        n == Len(content.media_items)
    IN /\ calls[1].method = "send_media_group"
       /\ Cardinality({i \in DOMAIN calls : calls[i].method = "send_media_group"}) = 1
       /\ Len(calls[1].album) = n
       /\ \A i \in 2..n : calls[1].album[i].caption = NoCaption
       /\ IF Len(text) <= 1024
          THEN calls[1].album[1].caption = text /\ Len(calls) = 1
          ELSE /\ calls[1].album[1].caption \in {<<>>, NoCaption}
               /\ Len(calls) = 2
               /\ calls[2].method = "send_message"
               /\ calls[2].text = text
               /\ calls[2].to = lastOp.id

C26_Witness ==
  /\ lastOp.op = "_deliver_post_to_user"
  /\ Len(content.media_items) = 2
  /\ Len(content.text) = 1024
  /\ Len(calls) = 1
  /\ Len(calls[1].album[1].caption) = 1024

(* C27: with album items the album is sent and the single media item is
   not; else with a media type and a file id the call of that kind is made
   with the text as caption, a video_note without caption and followed by
   the text as a message when the text is not blank; else the text is sent
   as a message. *)
C27_RenderPriority ==
  lastOp.op = "_deliver_post_to_user" =>
    LET chat_id == lastOp.id
        text == content.text
        kind == IF content.media_type = "Photo " THEN "photo" ELSE content.media_type
        blank == \A i \in DOMAIN text : text[i] = " "
        message == [method |-> "send_message", to |-> chat_id, media |-> "",
                    text |-> text, album |-> <<>>]
    IN IF content.media_items # <<>>
       THEN /\ calls[1].method = "send_media_group"
            /\ \A i \in DOMAIN calls :
                 calls[i].media # "f1"
                   /\ calls[i].method \in {"send_media_group", "send_message"}
       ELSE IF kind \in {"photo", "video", "document", "audio", "voice"} /\ content.file_id # ""
       THEN calls = <<[method |-> "send_" \o kind, to |-> chat_id,
                       media |-> content.file_id, text |-> text, album |-> <<>>]>>
       ELSE IF kind = "video_note" /\ content.file_id # ""
       THEN /\ calls[1] = [method |-> "send_video_note", to |-> chat_id,
                           media |-> content.file_id, text |-> NoCaption,
                           album |-> <<>>]
            /\ IF blank THEN Len(calls) = 1 ELSE calls = <<calls[1], message>>
       ELSE calls = <<message>>

C27_Witness ==
  /\ lastOp.op = "_deliver_post_to_user"
  /\ content.media_items # <<>>
  /\ content.media_type = "video_note" /\ content.file_id = "f1"
  /\ content.text = <<"x">>
  /\ Len(calls) = 1
  /\ calls[1].method = "send_media_group"

(* C28 (as stated): delivering a post with empty text, no album and no
   single media item makes no transport call. *)
C28_Original ==
  (/\ lastOp.op = "_deliver_post_to_user"
   /\ content.text = <<>>
   /\ content.media_items = <<>>
   /\ content.media_type = "" /\ content.file_id = "")
    => calls = <<>>

(* C29 (as stated): the Open button sends the recipient the calls that
   the direct delivery of the same post makes; for a post that is not
   stored it sends nothing and reports that the post is not found. *)
C29_Original ==
  lastOp.op = "open_post_callback" =>
    IF Stored(1)
    THEN RecipientSends = _deliver_post_to_user(lastOp.id, content, content.media_items)
    ELSE RecipientSends = <<>> /\ calls[1].text = <<"not found">>

(* --------------------- claims: delete and timers ---------------------- *)
(* C31: the confirmed delete removes the timer and the record of the post
   in one step; from then on, in this process and after a restart, an id
   that is not stored has no timer, and a run of it that starts later ends
   at once without a send; the confirmed delete of an id that is not
   stored says so and leaves store, timers and runs as they are. *)
C31_DeleteRemovesTimerAndRecord ==
  /\ [](\A p \in PostIds : ~Stored(p) => JobsOf(p) = {})
  /\ [][\A p \in PostIds : PostActionDelYes(p) =>
          /\ p \notin DOMAIN posts'
          /\ JobsOfIn(jobs', p) = {}
          /\ ~Stored(p) => /\ UNCHANGED <<posts, jobs, tasks>>
                           /\ lastOp' = Op("del_yes: already deleted", p)]_vars
  /\ [][\A t \in BagToSet(tasks) :
          (SendPostStart(t) /\ ~Stored(t.id)) =>
             /\ tasks' = Remove(tasks, t)
             /\ UNCHANGED <<posts, jobs, trace>>]_vars

(* post 1 has just been deleted while a run of it was dispatched and had
   not started *)
C31_Witness ==
  /\ lastOp = Op("del_yes: deleted", 1)
  /\ ~Stored(1)
  /\ \E t \in TasksOf(1) : t.pc = "start"

(* ------------------------- claims: seeding ---------------------------- *)
SeedComplete(item) ==
  /\ strip(item.key) # <<>> /\ strip(item.title) # <<>>
  /\ strip(item.send_at) # <<>> /\ item.text_html # <<>>

SeedMatches(post, item) ==
  /\ IsDate(item.send_at)
  /\ post.title = strip(item.title)
  /\ post.level = SeedLevel(item.level)
  /\ post.send_at = parse_moscow_datetime(item.send_at)

SeedRaises == \E i \in DOMAIN seed.posts :
                SeedComplete(seed.posts[i]) /\ ~IsDate(seed.posts[i].send_at)

(* C32: seeding is idempotent. Once the process has started with a seed
   file, seeding the same file again creates no post and returns 0, and a
   restart leaves the store as it was; no two stored posts have the same
   title, level and send_at although two items of the file have; every
   stored post comes from an item that has key, title, send_at and text,
   and, when no item raises, every such item has its post. *)
C32_SeedingIdempotent ==
  /\ [](up \/ crashes > 0 =>
         /\ seed_posts_from_json(posts, seed).posts = posts
         /\ seed_posts_from_json(posts, seed).created = 0
         /\ \A p, q \in DOMAIN posts :
              (/\ posts[p].title = posts[q].title
               /\ posts[p].level = posts[q].level
               /\ posts[p].send_at = posts[q].send_at) => p = q
         /\ \A q \in DOMAIN posts : \E i \in DOMAIN seed.posts :
              SeedComplete(seed.posts[i]) /\ SeedMatches(posts[q], seed.posts[i])
         /\ seed.file = "ok" /\ ~SeedRaises =>
              \A i \in DOMAIN seed.posts : SeedComplete(seed.posts[i]) =>
                 \E q \in DOMAIN posts : SeedMatches(posts[q], seed.posts[i]))
  /\ [][Start /\ crashes > 0 => posts' = posts]_vars

(* the process has restarted on a file of two items with the same title,
   level and send_at, and the store holds one post *)
C32_Witness ==
  /\ up /\ crashes > 0
  /\ seed.posts = <<SeedA, SeedA2>>
  /\ DOMAIN posts = {1}
  /\ lastOp.op = "setup_scheduler"

(* C38: at process start the seeding completes, or fails and is logged,
   before setup_scheduler queries the store: the start step leaves the
   store as the seeding leaves it, every post this start has seeded is
   dispatched when it is due and has its timer when it lies in the future,
   and the scheduler is set up whatever the seed file is, a missing one
   and one that is no JSON included. *)
C38_SeedBeforeSetup ==
  /\ [][Start =>
         /\ up'
         /\ posts' = seed_posts_from_json(posts, seed).posts
         /\ \A q \in DOMAIN posts' \ DOMAIN posts :
              IF posts'[q].send_at <= now
              THEN Dispatched(tasks', q) = 1 /\ JobsOfIn(jobs', q) = {}
              ELSE /\ JobsOfIn(jobs', q) = {TimerFor(posts'[q])}
                   /\ TasksOfIn(tasks', q) = {}]_vars
  /\ [](~up => ENABLED Start)

(* the first start has seeded a post of the future and one that is due:
   the first has its timer, the second its run *)
C38_Witness ==
  /\ up /\ crashes = 0 /\ lastOp.op = "setup_scheduler"
  /\ seed.posts = <<SeedA, SeedB>>
  /\ JobsOf(1) # {} /\ TasksOf(2) # {}

(* ----------------------- claims: overlapping runs --------------------- *)
(* C36 (as stated): at any time at most one run of a post id is past its
   sent check, in every interleaving of timers, dispatches and edits. *)
C36_Original ==
  \A p \in PostIds : Active(tasks, p) <= 1

(* ------------------- claims: the run and the store -------------------- *)
(* C34 (as stated): a run does not keep post state across its suspension
   points: whenever a run has dealt with a recipient and has the next one
   before it, the text and the level it sends with are those of the stored
   post. *)
C34_Original ==
  \A t \in BagToSet(tasks) :
    (t.pc = "loop" /\ 1 < t.idx /\ t.idx <= Len(t.chat_ids) /\ Stored(t.id)) =>
      /\ t.text = posts[t.id].text
      /\ t.level = posts[t.id].level

(* C35 (as stated): a run that is suspended inside a network send, to a
   recipient or to an administrator, holds no open store session. *)
C35_Original ==
  \A t \in BagToSet(tasks) : t.pc \in {"loop", "notify"} => t.db # "open"

(* ------------------------ claims: the wizard -------------------------- *)
(* C33: after any sequence of create and edit operations of the
   administrator, album finalizes included, every stored post has a title
   that is not empty and has a text that is not blank or some media, a
   single file or an album. *)
C33_StoredPostsWellFormed ==
  \A p \in DOMAIN posts :
    /\ strip(posts[p].title) # <<>>
    /\ \/ strip(posts[p].text) # <<>>
       \/ posts[p].file_id # ""
       \/ posts[p].media_items # <<>>

(* the stored post has got an album from a finalize, and the empty title
   the administrator sent for it has just been rejected *)
C33_Witness ==
  /\ Stored(1)
  /\ posts[1].media_items # <<>>
  /\ lastOp = Op("edit_title: empty", 0)

(* C39: no update of a sender who is not among the configured
   administrators changes the posts, the teaser, the timers or the runs,
   whatever the state of the wizard. *)
C39_OnlyAdminsWrite ==
  [][\/ UNCHANGED <<posts, teaser, jobs, tasks>>
     \/ ~\E u \in Senders :
           /\ \A i \in DOMAIN admin_ids : admin_ids[i] # u
           /\ Update(u)]_vars

(* a sender who is no administrator has just been denied while a post with
   its timer is stored *)
C39_Witness ==
  /\ lastOp = Op("denied", 1)
  /\ Stored(1)
  /\ JobsOf(1) # {}

(* ------------------- claims: the teaser and the run ------------------- *)
(* C37: within one delivery run all recipients get the same kind of
   message, the teaser or the post body, also when the administrator
   saves a teaser while the run is suspended between two sends. *)
C37_OneKindPerRun ==
  \A i, j \in DOMAIN trace :
    (trace[i].ev = "send" /\ trace[j].ev = "send") =>
      trace[i].kind = trace[j].kind

(* a recipient got the post body, then the administrator saved a teaser,
   then the next recipient of the same run got the post body too *)
C37_Witness ==
  /\ TeaserConfigured(teaser)
  /\ \E i, j, k \in DOMAIN trace :
       /\ i < j /\ j < k
       /\ trace[i].ev = "send" /\ trace[i].kind = "post"
       /\ trace[j].ev = "set_teaser_content"
       /\ trace[k].ev = "send" /\ trace[k].kind = "post"

(* ---------------------------- claims: albums ------------------------- *)
ArrivedItems ==
  LET arrived == SelectSeq(trace, LAMBDA e : e.ev = "album item")
  IN [i \in DOMAIN arrived |-> arrived[i].item]

Finalizes == SelectSeq(trace, LAMBDA e : e.ev = "finalize")

(* the album as the wizard has stored it: the media group of the draft, or
   the album of post 1 *)
StoredAlbum(into) ==
  IF into = "draft" THEN Ctx(3).data.draft_media_group ELSE posts[1].media_items

(* C40: when the messages of one media group arrive each within the
   debounce delay of the previous one, no item is lost while they arrive,
   the album is finalized at most once and only after the last message,
   the stored album then holds all items in arrival order, and once no
   handler and no runner is left the album has been finalized. *)
C40_AlbumFinalizedOnce ==
  /\ Len(Finalizes) <= 1
  /\ Finalizes = <<>> => Ctx(3).data.album_items = ArrivedItems
  /\ Finalizes # <<>> =>
       /\ updates = <<>>
       /\ Finalizes[1].items = ArrivedItems
       /\ StoredAlbum(Finalizes[1].into) = ArrivedItems
  /\ (updates = <<>> /\ pending = {} /\ album_tasks = {}) => Len(Finalizes) = 1

(* an album of three items has been written to post 1 by the runner of the
   last item, while the handler of the first item was still answering *)
C40_Witness ==
  /\ Len(ArrivedItems) = MaxAlbumItems
  /\ Len(Finalizes) = 1
  /\ posts[1].media_items = ArrivedItems
  /\ pending # {}

====
